---- MODULE Spec2Model ----
(***************************************************************************)
(* Inspection station of santiauat/ProyectoControlRobot.                   *)
(*                                                                         *)
(*   core/plc_controller.py          PLCController (MC protocol client)    *)
(*   core/vision_processor_prueba.py VisionProcessor (dual camera)         *)
(*   main2.py                        SistemaPLCYOLO (Tk shell + loop)      *)
(*                                                                         *)
(* The Tk program is single threaded.  A handler runs to its end or to a   *)
(* root.update() call; root.update() dispatches every pending event        *)
(* (button clicks and due root.after timers) from inside the handler, so   *)
(* handlers nest.  pila is the stack of handlers suspended in              *)
(* root.update(); an action is one handler segment between two such        *)
(* points.                                                                 *)
(*                                                                         *)
(* Modelling decisions:                                                    *)
(*  - Pixel coordinates are non-negative integers; None is NoneVal (-1).   *)
(*  - desviacion_mm is carried in hundredths of a millimetre (the float    *)
(*    c/100.0 of the source is the integer c here); int(round(x*100.0))    *)
(*    of c/100.0 is c for every c the model produces.                      *)
(*  - A transport call that raises leaves the register untouched.          *)
(*  - In the running system the detection models answer when they are    *)
(*    loaded; a VisionProcessor whose model files did not load holds no    *)
(*    model, and an inference that raises is modelled for calibrar_y in    *)
(*    SpecVision only.                                                     *)
(*  - A video capture is None, not open, open without frames, open with    *)
(*    frames, or open with every frame read; the lengths of the videos     *)
(*    are not fixed, so a read may leave the top capture at its end.       *)
(*  - The messagebox of main2.py:366 is followed by _detener_sistema: the  *)
(*    handler waits in it on pila like in root.update(), and while it is   *)
(*    open the timers run and the buttons take no clicks.  The other       *)
(*    messageboxes end their handlers.                                     *)
(*  - cerrar() destroys the root: no click and no root.after callback is   *)
(*    dispatched afterwards.  A handler that was suspended in              *)
(*    root.update() or in the messagebox of main2.py:366 when cerrar ran   *)
(*    still runs the rest of its code, in which the first command sent to  *)
(*    a widget of the destroyed window raises TclError.  _mostrar_frame    *)
(*    catches it; elsewhere it ends the handler, in _loop_principal after  *)
(*    the except of line 480 has called _detener_sistema, which clears     *)
(*    the run flag and raises again at its first widget command (373).     *)
(*    StringVar.set and the video captures do not depend on the window.    *)
(*  - main2.py:207 calls PLCController(self.config, self.logger) while     *)
(*    PLCController.__init__ takes one path argument, so _conectar_plc     *)
(*    always ends in its except branch and controlador_plc stays None.     *)
(*    btn_desconectar_plc is created disabled (main2.py:124-125) and only  *)
(*    a successful connection enables it, so _desconectar_plc never runs.  *)
(*    The shell therefore never polls and never writes; PLCController is   *)
(*    exercised by direct calls (SpecPLC, and the cycle body of            *)
(*    SpecVision).                                                         *)
(***************************************************************************)
EXTENDS Integers, Sequences, FiniteSets, TLC

\* ------------------------------------------------------------------
\* Program constants
\* ------------------------------------------------------------------
VAL_SOLICITUD == 99
VAL_EXITO == 88
VAL_ERROR == 77

CODIGO_OK == 0
CODIGO_FALLO_QC == 1
CODIGO_PARADA == 2

TOTAL_POSICIONES == 8
TOLERANCIA_COLUMNA_PX == 30
CORRECCION_Y_FIJA_PX == 50
D_REAL_MM == 100
OFFSET_CERO_PX == 40

INT32_MAX == 2147483647
INT32_MIN == (-INT32_MAX) - 1
DOS_16 == 65536

CLASES_FALLO_SUPERIOR == {"error_apilado", "error_alerta"}
CLASE_POSICION == "posicion_columna"
CLASE_VACIO == "posicion_vacia"
CLASES_ANOMALIA_LATERAL == {"error_caido"}
CLASE_REFERENCIA == "referencia_fija"
CLASE_BORDE_ENV == "borde_envase"
CLASE_MITAD_ENV == "mitad_envase"

DEV_TRIGGER == "D28"
DEV_RESULTADO_VALOR == "D29"
DEV_RESULTADO_FILAS == "D14"

\* None of the source, for pixel coordinates (which are >= 0)
NoneVal == -1

\* ------------------------------------------------------------------
\* Bounds of the model
\* ------------------------------------------------------------------
MaxPila == 2
MaxInicios == 2
\* longest generated detection list of a directly called method
MaxDetecciones == 3

\* ------------------------------------------------------------------
\* Arithmetic helpers
\* ------------------------------------------------------------------
Abs(n) == IF n < 0 THEN -n ELSE n
Max2(a, b) == IF a > b THEN a ELSE b
Min2(a, b) == IF a < b THEN a ELSE b

\* floor of num/den, den > 0
FloorDiv(num, den) == num \div den

\* Python round() of the rational num/den (den > 0): nearest, ties to even
RoundHalfEven(num, den) ==
    LET q == FloorDiv(num, den)
        r == num - q * den
    IN  IF 2 * r > den THEN q + 1
        ELSE IF 2 * r < den THEN q
        ELSE IF q % 2 = 0 THEN q ELSE q + 1

\* int((a + b) / 2) for non-negative pixel coordinates
Centro(a, b) == (a + b) \div 2

\* ------------------------------------------------------------------
\* Python float arithmetic (IEEE-754 binary64, round to nearest, ties to
\* even).  A natural below 2^58 is [h, l] = h * 2^27 + l; a non-negative
\* float is [m, e] = m * 2^e with 2^52 <= m < 2^53, or m = 0.
\* ------------------------------------------------------------------
B27 == 134217728
N0 == [h |-> 0, l |-> 0]
N1 == [h |-> 0, l |-> 1]
Pot52 == [h |-> 33554432, l |-> 0]
Pot53 == [h |-> 67108864, l |-> 0]
Natural(n) == [h |-> n \div B27, l |-> n % B27]

\* the value of a one-element set: an intermediate result computed once
Unico(S) == CHOOSE u \in S : TRUE

Doble(x) == [h |-> 2 * x.h + (2 * x.l) \div B27, l |-> (2 * x.l) % B27]
MayorIgual(x, y) == x.h > y.h \/ (x.h = y.h /\ x.l >= y.l)
Resta(x, y) ==
    IF x.l >= y.l THEN [h |-> x.h - y.h, l |-> x.l - y.l]
    ELSE [h |-> x.h - y.h - 1, l |-> x.l + B27 - y.l]
Mas1(x) == IF x.l = B27 - 1 THEN [h |-> x.h + 1, l |-> 0]
           ELSE [h |-> x.h, l |-> x.l + 1]
\* x * k for 0 <= k <= 10
PorEntero(x, k) == [h |-> x.h * k + (x.l * k) \div B27, l |-> (x.l * k) % B27]

\* floor(x / 2^k), 0 <= k
Piso(x, k) ==
    IF k < 27
    THEN [h |-> x.h \div 2^k,
          l |-> (x.h % 2^k) * 2^(27 - k) + x.l \div 2^k]
    ELSE IF k < 58 THEN Natural(x.h \div 2^(k - 27))
    ELSE N0

\* x * 2^k, for a product below 2^58 (x below 2^27 where k >= 27)
Escalar(x, k) ==
    IF k < 27
    THEN [h |-> x.h * 2^k + x.l \div 2^(27 - k),
          l |-> (x.l % 2^(27 - k)) * 2^k]
    ELSE [h |-> x.l * 2^(k - 27), l |-> 0]

\* number of binary digits of a natural t < 2^30
Longitud(valor) == Cardinality({bit \in 0..30 : 2^bit <= valor})

\* (num / den) * 2^e0 written as (n / d) * 2^e with d <= n < 2 * d, for
\* num > 0 and den > 0: num is doubled while it is below den, then den
\* is doubled while it is at most half of num
Normalizar(num, den, e0) ==
    LET sube == Cardinality({ps \in 0..57 :
                    MayorIgual(Piso(Resta(den, N1), ps), num)})
        subido == Escalar(num, sube)
        baja == Cardinality({pb \in 1..57 : MayorIgual(Piso(subido, pb), den)})
    IN  [n |-> subido, d |-> Escalar(den, baja), e |-> e0 - sube + baja]

\* one more quotient bit by long division: c is [r, q], remainder and
\* quotient so far
PasoCociente(c, den) ==
    IF MayorIgual(Doble(c.r), den)
    THEN [r |-> Resta(Doble(c.r), den), q |-> Mas1(Doble(c.q))]
    ELSE [r |-> Doble(c.r), q |-> Doble(c.q)]

\* k >= 1 more quotient bits: the first half of them, then the rest
RECURSIVE BitsCociente(_, _, _)
BitsCociente(c, den, k) ==
    IF k = 1 THEN PasoCociente(c, den)
    ELSE Unico({BitsCociente(c2, d2, k2) :
                   c2 \in {BitsCociente(c, den, k \div 2)},
                   d2 \in {den}, k2 \in {k - k \div 2}})

\* 53 quotient bits c of v.n / v.d rounded by the guard bit and the
\* remainder
Redondeo(c, v) ==
    LET guarda == MayorIgual(Doble(c.r), v.d)
        resto == IF guarda THEN Resta(Doble(c.r), v.d) ELSE Doble(c.r)
        mant == IF guarda /\ (resto # N0 \/ c.q.l % 2 = 1)
                THEN Mas1(c.q) ELSE c.q
    IN  IF mant = Pot53 THEN [m |-> Pot52, e |-> v.e - 51]
        ELSE [m |-> mant, e |-> v.e - 52]

Cociente(nd) ==
    Unico({Redondeo(bits, nd) :
              bits \in {BitsCociente([r |-> Resta(nd.n, nd.d), q |-> N1],
                                     nd.d, 52)}})

\* the float nearest to (num / den) * 2^e0, for naturals num and den > 0
RedondearCociente(num, den, e0) ==
    IF num = N0 THEN [m |-> N0, e |-> 0]
    ELSE Unico({Cociente(nz) : nz \in {Normalizar(num, den, e0)}})

\* a / b, float * k and a / float for naturals a, b and 0 <= k <= 10
DivEnteros(a, b) ==
    Unico({RedondearCociente(Natural(ea), Natural(eb), 0) :
              ea \in {a}, eb \in {b}})
PorPequeno(x, k) ==
    Unico({RedondearCociente(PorEntero(fx.m, fk), N1, fx.e) :
              fx \in {x}, fk \in {k}})
EnteroEntreFloat(a, x) ==
    Unico({RedondearCociente(Natural(na), fd.m, -fd.e) :
              na \in {a}, fd \in {x}})

\* int(primero + m * 2^-k) for a natural primero and a float below 2^27
\* (26 <= k <= 53): the sum is rounded to a float first, which reaches the
\* next integer when the fraction is within half a unit in the last
\* place of it
EnteroDeSumaCon(primero, m, k) ==
    LET entS == Piso(m, k)
        fracS == Resta(m, Escalar(entS, k))
        total == primero + entS.l
        ulp == k - 54 + Longitud(total)
    IN  IF fracS = N0 \/ total = 0 \/ ulp < 0 THEN total
        ELSE IF MayorIgual(Escalar(N1, ulp), Resta(Escalar(N1, k), fracS))
        THEN total + 1
        ELSE total

\* int(primero + x) for a natural primero and a float x < 2^27
EnteroDeSuma(primero, x) ==
    Unico({IF fs.m = N0 \/ -fs.e >= 54 THEN ps0
           ELSE EnteroDeSumaCon(ps0, fs.m, -fs.e) :
              ps0 \in {primero}, fs \in {x}})

\* round(m * 2^-k) for a float below 2^27 (26 <= k <= 53): nearest
\* integer, ties to even
RedondearFloatCon(m, k) ==
    LET entR == Piso(m, k)
        fracR == Resta(m, Escalar(entR, k))
        medio == Escalar(N1, k - 1)
    IN  IF fracR = medio
        THEN (IF entR.l % 2 = 0 THEN entR.l ELSE entR.l + 1)
        ELSE IF MayorIgual(fracR, medio) THEN entR.l + 1
        ELSE entR.l

\* round(x) for a float x < 2^27
RedondearFloat(x) ==
    Unico({IF fr.m = N0 \/ -fr.e >= 54 THEN 0
           ELSE RedondearFloatCon(fr.m, -fr.e) :
              fr \in {x}})

\* int(primero + i * (suma / cuantos)) of calibrar_y (line 132), for
\* naturals with cuantos > 0 and 0 <= i <= 10.  Where i * suma / cuantos is
\* not an integer the rounding errors (below 2^-40) cannot reach the next
\* integer and the floor of the exact value is taken; where the average
\* is a whole number of 1024ths it is a float and every operation is
\* exact; otherwise the three float operations are replayed.
CentroIdeal(primero, suma, cuantos, i) ==
    Unico({IF (ki * ks) % kc # 0 \/ (1024 * ks) % kc = 0
           THEN kp + FloorDiv(ki * ks, kc)
           ELSE EnteroDeSuma(kp, PorPequeno(DivEnteros(ks, kc), ki)) :
              kp \in {primero}, ks \in {suma}, kc \in {cuantos}, ki \in {i}})

\* int(round((err / (delta / d_real)) * 10)) of _calcular_correccion_z
\* (lines 153-159), delta > 0 and d_real > 0.  Where the exact value is
\* not halfway between two integers the rounding errors cannot move it
\* across the halfway point and the nearest integer is taken; where it
\* is, the three float operations and round() are replayed.
CorreccionCmm(err, delta, d_real) ==
    IF 2 * ((Abs(err) * d_real * 10) % delta) # delta
    THEN RoundHalfEven(err * d_real * 10, delta)
    ELSE (IF err < 0 THEN -1 ELSE 1)
         * RedondearFloat(PorPequeno(EnteroEntreFloat(Abs(err),
                                         DivEnteros(delta, d_real)), 10))

\* ------------------------------------------------------------------
\* Codec
\* ------------------------------------------------------------------
\* An integer of any size, as the code's Python int: the value is
\* q * 2^16 + r with r in 0..65535 (q floors, so it carries the sign).
Ancho(n) == [q |-> n \div DOS_16, r |-> n % DOS_16]

\* variant: no clamp, the value wraps modulo 2^32
_int32_to_words_ancho_SinClamp(e) ==
    LET u == IF e.q < 0 THEN [e EXCEPT !.q = e.q + DOS_16] ELSE e
    IN  << u.r, u.q % DOS_16 >>

\* variant: the words are returned high word first
_int32_to_words_ancho_AltoPrimero(e) ==
    LET c == IF e.q > Ancho(INT32_MAX).q THEN Ancho(INT32_MAX)
             ELSE IF e.q < Ancho(INT32_MIN).q THEN Ancho(INT32_MIN)
             ELSE e
        u == IF c.q < 0 THEN [c EXCEPT !.q = c.q + DOS_16] ELSE c
    IN  << u.q % DOS_16, u.r >>

\* _int32_to_words on an integer of any size:
\*   n = max(-2147483648, min(n, 2147483647))   (n > INT32_MAX iff its q is
\*       above INT32_MAX's, n < INT32_MIN iff its q is below INT32_MIN's)
\*   if n < 0: n = n + (1 << 32)                 (q + 2^16)
\*   low_word = n & 0xFFFF; high_word = (n >> 16) & 0xFFFF
_int32_to_words_ancho(e) ==
    LET c == IF e.q > Ancho(INT32_MAX).q THEN Ancho(INT32_MAX)
             ELSE IF e.q < Ancho(INT32_MIN).q THEN Ancho(INT32_MIN)
             ELSE e
        u == IF c.q < 0 THEN [c EXCEPT !.q = c.q + DOS_16] ELSE c
    IN  << u.r, u.q % DOS_16 >>

\* what _int32_to_words emits besides its return value: the method has no
\* print, no logger call and no flag, for a clamped argument or any other
avisos_int32_to_words(e) == << >>

\* _int32_to_words(n) for n that fits the checker's integers
_int32_to_words(n) == _int32_to_words_ancho(Ancho(n))

\* ------------------------------------------------------------------
\* PLCController (core/plc_controller.py)
\*   a client is [creado, is_connected, mc]; the PLC's registers are
\*   [D28, D29, D14, valor_de_codigo, filas_de_codigo], where D29 is the
\*   pair <<low word, high word>> and the last two fields record whether
\*   the value / row-count register was written by the same
\*   escribir_resultados call that wrote the status code now in D28.
\* ------------------------------------------------------------------
PLCNuevo == [creado |-> TRUE, is_connected |-> FALSE, mc |-> "None"]
PLCAusente == [creado |-> FALSE, is_connected |-> FALSE, mc |-> "None"]

\* _configuracion_por_defecto()
_configuracion_por_defecto ==
    [ip_plc |-> "192.168.100.120", puerto_plc |-> 5007,
     dispositivo_trigger |-> DEV_TRIGGER,
     dispositivo_valor |-> DEV_RESULTADO_VALOR,
     dispositivo_filas |-> DEV_RESULTADO_FILAS,
     valor_solicitud |-> VAL_SOLICITUD, valor_exito |-> VAL_EXITO,
     valor_error |-> VAL_ERROR]

\* what a readable configuration file of the station holds: its own host
\* and port, the registers and codes of the handshake
ConfigArchivo ==
    [_configuracion_por_defecto EXCEPT !.ip_plc = "10.0.0.7", !.puerto_plc = 6000]

SinConfig == [ip_plc |-> "", puerto_plc |-> 0]

\* the file system's answers to open(config_file) and json.load
ArchivosConfig == {"valido", "ausente", "json_invalido"}

\* _cargar_configuracion(config_file): FileNotFoundError is answered with
\* the defaults, json.JSONDecodeError is re-raised
_cargar_configuracion(archivo) ==
    IF archivo = "valido"
    THEN [levanta |-> FALSE, config |-> ConfigArchivo, impreso |-> "cargada"]
    ELSE IF archivo = "ausente"
    THEN [levanta |-> FALSE, config |-> _configuracion_por_defecto,
          impreso |-> "usando valores por defecto"]
    ELSE [levanta |-> TRUE, config |-> SinConfig, impreso |-> "error json"]

\* PLCController(config_file): plc is the object the caller gets, absent
\* when the constructor raises
PLCController_init(archivo) ==
    LET c == _cargar_configuracion(archivo)
    IN  IF c.levanta
        THEN [levanta |-> TRUE, plc |-> PLCAusente, config |-> c.config]
        ELSE [levanta |-> FALSE, plc |-> PLCNuevo, config |-> c.config]

\* variant: a failed attempt leaves is_connected as it was
conectar_ConservaEstado(p, ok) ==
    [plc |-> [p EXCEPT !.mc = "Type3E", !.is_connected = ok \/ p.is_connected],
     ret |-> ok, intentos |-> 1]

\* conectar(): ok is whether mc.connect() returned without raising;
\* intentos counts the mc.connect() calls issued
conectar(p, ok) ==
    [plc |-> [p EXCEPT !.mc = "Type3E", !.is_connected = ok], ret |-> ok,
     intentos |-> 1]

desconectar(p) ==
    IF p.is_connected /\ p.mc # "None"
    THEN [p EXCEPT !.is_connected = FALSE, !.mc = "None"]
    ELSE p

\* desconectar() with the transport's side: close_llamado is whether
\* mc.close() was called; an exception of mc.close() is caught
\* (cierre_falla), so the call returns normally either way
desconectar_transporte(p, cierre_falla) ==
    [plc |-> desconectar(p), close_llamado |-> (p.is_connected /\ p.mc # "None"),
     levanta |-> FALSE]

\* leer_solicitud_inspeccion(): falla is whether batchread_wordunits raises;
\* io counts the transport calls issued
leer_solicitud_inspeccion(p, r, falla) ==
    IF ~p.is_connected
    THEN [plc |-> p, ret |-> FALSE, io |-> 0, fallo |-> FALSE]
    ELSE IF falla
    THEN [plc |-> [p EXCEPT !.is_connected = FALSE], ret |-> FALSE,
          io |-> 1, fallo |-> TRUE]
    ELSE [plc |-> p, ret |-> (r.D28 = VAL_SOLICITUD), io |-> 1, fallo |-> FALSE]

verificar_conexion(p, falla) ==
    IF ~p.is_connected \/ p.mc = "None"
    THEN [plc |-> p, ret |-> FALSE, io |-> 0, fallo |-> FALSE]
    ELSE IF falla
    THEN [plc |-> [p EXCEPT !.is_connected = FALSE], ret |-> FALSE,
          io |-> 1, fallo |-> TRUE]
    ELSE [plc |-> p, ret |-> TRUE, io |-> 1, fallo |-> FALSE]

\* obtener_estado_sistema(): falla = 0 no read raises, 1 the trigger read
\* raises, 2 the row-count read raises; ret is the 'conectado' entry
obtener_estado_sistema(p, falla) ==
    IF ~p.is_connected
    THEN [plc |-> p, ret |-> FALSE, io |-> 0, fallo |-> FALSE]
    ELSE IF falla # 0
    THEN [plc |-> p, ret |-> FALSE, io |-> falla, fallo |-> TRUE]
    ELSE [plc |-> p, ret |-> TRUE, io |-> 2, fallo |-> FALSE]

\* variant: the status code is written before the data
PlanEscritura_EstadoPrimero(desv_cmm, num_filas, exito) ==
    IF exito
    THEN << [dev |-> DEV_TRIGGER, values |-> << VAL_EXITO >>],
            [dev |-> DEV_RESULTADO_VALOR, values |-> _int32_to_words(desv_cmm)],
            [dev |-> DEV_RESULTADO_FILAS, values |-> << Max2(0, num_filas) >>] >>
    ELSE << [dev |-> DEV_TRIGGER, values |-> << VAL_ERROR >>],
            [dev |-> DEV_RESULTADO_VALOR, values |-> _int32_to_words(0)],
            [dev |-> DEV_RESULTADO_FILAS, values |-> << 0 >>] >>

\* variant: the failure branch resets the trigger register to 0
PlanEscritura_TriggerCero(desv_cmm, num_filas, exito) ==
    IF exito
    THEN << [dev |-> DEV_RESULTADO_VALOR, values |-> _int32_to_words(desv_cmm)],
            [dev |-> DEV_RESULTADO_FILAS, values |-> << Max2(0, num_filas) >>],
            [dev |-> DEV_TRIGGER, values |-> << VAL_EXITO >>] >>
    ELSE << [dev |-> DEV_RESULTADO_VALOR, values |-> _int32_to_words(0)],
            [dev |-> DEV_RESULTADO_FILAS, values |-> << 0 >>],
            [dev |-> DEV_TRIGGER, values |-> << 0 >>] >>

\* variant: the row count is written as given
PlanEscritura_FilasSinValidar(desv_cmm, num_filas, exito) ==
    IF exito
    THEN << [dev |-> DEV_RESULTADO_VALOR, values |-> _int32_to_words(desv_cmm)],
            [dev |-> DEV_RESULTADO_FILAS, values |-> << num_filas >>],
            [dev |-> DEV_TRIGGER, values |-> << VAL_EXITO >>] >>
    ELSE << [dev |-> DEV_RESULTADO_VALOR, values |-> _int32_to_words(0)],
            [dev |-> DEV_RESULTADO_FILAS, values |-> << 0 >>],
            [dev |-> DEV_TRIGGER, values |-> << VAL_ERROR >>] >>

\* The three sub-writes of escribir_resultados, in the order of the source
PlanEscritura(desv_cmm, num_filas, exito) ==
    IF exito
    THEN << [dev |-> DEV_RESULTADO_VALOR, values |-> _int32_to_words(desv_cmm)],
            [dev |-> DEV_RESULTADO_FILAS, values |-> << Max2(0, num_filas) >>],
            [dev |-> DEV_TRIGGER, values |-> << VAL_EXITO >>] >>
    ELSE << [dev |-> DEV_RESULTADO_VALOR, values |-> _int32_to_words(0)],
            [dev |-> DEV_RESULTADO_FILAS, values |-> << 0 >>],
            [dev |-> DEV_TRIGGER, values |-> << VAL_ERROR >>] >>

\* mc.batchwrite_wordunits(headdevice, values) that returns normally.
\* escritos is the set of devices this call has already written.
batchwrite_wordunits(r, w, escritos) ==
    IF w.dev = DEV_RESULTADO_VALOR
    THEN [r EXCEPT !.D29 = w.values, !.valor_de_codigo = FALSE]
    ELSE IF w.dev = DEV_RESULTADO_FILAS
    THEN [r EXCEPT !.D14 = w.values[1], !.filas_de_codigo = FALSE]
    ELSE [r EXCEPT !.D28 = w.values[1],
                   !.valor_de_codigo = (DEV_RESULTADO_VALOR \in escritos),
                   !.filas_de_codigo = (DEV_RESULTADO_FILAS \in escritos)]

\* Issue plan[i..]: sub-write number falla raises (0: none raises)
RECURSIVE EmitirEscrituras(_, _, _, _, _, _)
EmitirEscrituras(plan, i, falla, r, escritos, bit) ==
    IF i > Len(plan)
    THEN [regs |-> r, bitacora |-> bit]
    ELSE IF i = falla
    THEN [regs |-> r,
          bitacora |-> Append(bit, [dev |-> plan[i].dev,
                                     values |-> plan[i].values, ok |-> FALSE])]
    ELSE EmitirEscrituras(plan, i + 1, falla,
             batchwrite_wordunits(r, plan[i], escritos),
             escritos \cup {plan[i].dev},
             Append(bit, [dev |-> plan[i].dev,
                          values |-> plan[i].values, ok |-> TRUE]))

\* variant: a failed sub-write leaves is_connected set
escribir_resultados_SigueConectado(p, r, desv_cmm, num_filas, exito, falla) ==
    IF ~p.is_connected
    THEN [plc |-> p, regs |-> r, ret |-> FALSE, bitacora |-> << >>]
    ELSE LET e == EmitirEscrituras(PlanEscritura(desv_cmm, num_filas, exito),
                                   1, falla, r, {}, << >>)
         IN  [plc |-> p, regs |-> e.regs, ret |-> (falla = 0),
              bitacora |-> e.bitacora]

\* escribir_resultados(desviacion_mm, num_filas, exito)
escribir_resultados(p, r, desv_cmm, num_filas, exito, falla) ==
    IF ~p.is_connected
    THEN [plc |-> p, regs |-> r, ret |-> FALSE, bitacora |-> << >>]
    ELSE LET e == EmitirEscrituras(PlanEscritura(desv_cmm, num_filas, exito),
                                   1, falla, r, {}, << >>)
         IN  IF falla = 0
             THEN [plc |-> p, regs |-> e.regs, ret |-> TRUE,
                   bitacora |-> e.bitacora]
             ELSE [plc |-> [p EXCEPT !.is_connected = FALSE], regs |-> e.regs,
                   ret |-> FALSE, bitacora |-> e.bitacora]

\* ------------------------------------------------------------------
\* VisionProcessor (core/vision_processor_prueba.py)
\*   a detection of the top camera is [cls, x1, x2], one of the side
\*   camera is [cls, y1, y2]; a frame is the sequence of detections the
\*   model returns for it, in the model's order.
\* ------------------------------------------------------------------
\* modelo_sup / modelo_lat: the attribute holds a loaded model (not None)
VPAusente == [creado |-> FALSE, calibrado_y |-> FALSE, X_CENTROS_IDEALES |-> << >>,
              modelo_sup |-> FALSE, modelo_lat |-> FALSE]
VPNuevo == [creado |-> TRUE, calibrado_y |-> FALSE, X_CENTROS_IDEALES |-> << >>,
            modelo_sup |-> TRUE, modelo_lat |-> TRUE]

\* VisionProcessor(...) whose _cargar_modelos fails
\* (vision_processor_prueba.py:83-94): at the top model's file no model is
\* kept, at the side model's file the top model is
VPSinModelos == [VPNuevo EXCEPT !.modelo_sup = FALSE, !.modelo_lat = FALSE]
VPSoloSup == [VPNuevo EXCEPT !.modelo_lat = FALSE]

\* ascending insertion of x into the sorted sequence s (list.sort)
RECURSIVE InsertarOrdenado(_, _)
InsertarOrdenado(s, x) ==
    IF s = << >> THEN << x >>
    ELSE IF x <= Head(s) THEN << x >> \o s
    ELSE Unico({<< menor >> \o InsertarOrdenado(cola, nuevo) :
                   menor \in {Head(s)}, cola \in {Tail(s)}, nuevo \in {x}})

\* centros_x_detectados after the loop and the sort of calibrar_y
RECURSIVE CentrosDetectados(_)
CentrosDetectados(dets) ==
    IF dets = << >> THEN << >>
    ELSE Unico({IF d.cls = CLASE_POSICION \/ d.cls = CLASE_VACIO
                THEN InsertarOrdenado(resto, Centro(d.x1, d.x2))
                ELSE resto :
                   d \in {Head(dets)},
                   resto \in {CentrosDetectados(Tail(dets))}})

\* variant: with fewer than 2 markers the previous calibration is kept
calibrar_y_ConservaPrevia(vp, dets) ==
    LET cs == CentrosDetectados(dets)
        n == Len(cs)
    IN  IF n < 2
        THEN vp
        ELSE [vp EXCEPT
                !.X_CENTROS_IDEALES =
                    [i \in 1..TOTAL_POSICIONES |->
                        CentroIdeal(cs[1], cs[n] - cs[1], n - 1, i - 1)],
                !.calibrado_y = TRUE]

\* variant: one ideal centre per detected marker instead of TOTAL_POSICIONES
calibrar_y_MapaParcial(vp, dets) ==
    LET cs == CentrosDetectados(dets)
        n == Len(cs)
    IN  IF n < 2
        THEN [vp EXCEPT !.X_CENTROS_IDEALES = << >>, !.calibrado_y = FALSE]
        ELSE [vp EXCEPT
                !.X_CENTROS_IDEALES =
                    [i \in 1..n |->
                        CentroIdeal(cs[1], cs[n] - cs[1], n - 1, i - 1)],
                !.calibrado_y = TRUE]

\* calibrar_y(frame_calibracion): the new calibration state of vp; without
\* a top model it returns at once (vision_processor_prueba.py:102-104).
\* sum(deltas) is last - first and len(deltas) is n - 1; each centre is
\* int(first + i * distancia_ideal_px) in float arithmetic, which gives
\* one less than the exact value where the product falls just below an
\* integer (span 61 or 230 over 7 gaps, i = 7).
calibrar_y(vp, dets) ==
    IF ~vp.modelo_sup THEN vp
    ELSE
    Unico({IF Len(cs) < 2
           THEN [vp EXCEPT !.X_CENTROS_IDEALES = << >>, !.calibrado_y = FALSE]
           ELSE [vp EXCEPT
                   !.X_CENTROS_IDEALES =
                       [i \in 1..TOTAL_POSICIONES |->
                           CentroIdeal(cs[1], cs[Len(cs)] - cs[1],
                                       Len(cs) - 1, i - 1)],
                   !.calibrado_y = TRUE] :
              cs \in {CentrosDetectados(dets)}})

\* calibrar_y when modelo_sup.predict raises: the except branch
\* (vision_processor_prueba.py:138-140) clears the flag only
calibrar_y_excepcion(vp) == [vp EXCEPT !.calibrado_y = FALSE]

\* _calcular_correccion_z(y_referencia, y_borde, y_mitad)
\*   int(round((delta_p_error / (delta_p_escala / D_REAL_MM)) * 10)) in
\*   float arithmetic
\*   d_real_mm is self.D_REAL_MM, read from the configuration
_calcular_correccion_z_con(d_real_mm, y_referencia, y_borde, y_mitad) ==
    LET delta_p_escala == Abs(y_borde - y_mitad)
        delta_p_error == (y_borde - y_referencia) - OFFSET_CERO_PX
    IN  IF delta_p_escala = 0 \/ d_real_mm = 0
        THEN [z |-> 0, log |-> "escala"]
        ELSE [z |-> CorreccionCmm(delta_p_error, delta_p_escala, d_real_mm),
              log |-> "ok"]

\* variant: the zero offset is not subtracted
_calcular_correccion_z_SinOffset(y_referencia, y_borde, y_mitad) ==
    LET delta_p_escala == Abs(y_borde - y_mitad)
    IN  IF delta_p_escala = 0 \/ D_REAL_MM = 0
        THEN [z |-> 0, log |-> "escala"]
        ELSE [z |-> CorreccionCmm(y_borde - y_referencia, delta_p_escala,
                                  D_REAL_MM),
              log |-> "ok"]

\* _calcular_correccion_z with the default D_REAL_MM
_calcular_correccion_z(y_referencia, y_borde, y_mitad) ==
    _calcular_correccion_z_con(D_REAL_MM, y_referencia, y_borde, y_mitad)

CLASES_Z == {CLASE_REFERENCIA, CLASE_BORDE_ENV, CLASE_MITAD_ENV}

\* the detection loop of _ejecutar_inferencia_lateral: first occurrence of
\* each landmark is kept; an anomaly class stops the scan
RECURSIVE BuscarLateral(_, _)
BuscarLateral(dets, y_coords) ==
    IF dets = << >> THEN [y_coords |-> y_coords, parada |-> FALSE]
    ELSE LET d == Head(dets)
             yc == IF d.cls \in CLASES_Z /\ y_coords[d.cls] = NoneVal
                   THEN [y_coords EXCEPT ![d.cls] = Centro(d.y1, d.y2)]
                   ELSE y_coords
         IN  IF d.cls \in CLASES_ANOMALIA_LATERAL
             THEN [y_coords |-> yc, parada |-> TRUE]
             ELSE BuscarLateral(Tail(dets), yc)

\* variant: the depth correction is computed although an anomaly stopped
\* the scan
_ejecutar_inferencia_lateral_ZConParada(dets, alto) ==
    LET b == BuscarLateral(dets, [c \in CLASES_Z |-> NoneVal])
        sin_ref == b.y_coords[CLASE_REFERENCIA] = NoneVal
        yc == IF sin_ref
              THEN [b.y_coords EXCEPT ![CLASE_REFERENCIA] = alto \div 2]
              ELSE b.y_coords
        code == IF b.parada THEN CODIGO_PARADA ELSE CODIGO_OK
    IN  IF \A c \in CLASES_Z : yc[c] # NoneVal /\ yc[c] # 0
        THEN LET r == _calcular_correccion_z(yc[CLASE_REFERENCIA],
                          yc[CLASE_BORDE_ENV], yc[CLASE_MITAD_ENV])
             IN  [code |-> code, z |-> r.z, log |-> r.log, fallback |-> sin_ref]
        ELSE [code |-> code, z |-> 0, log |-> "faltan", fallback |-> sin_ref]

\* variant: a collapsed scale is answered with a stop
_ejecutar_inferencia_lateral_ColapsoEsParada(dets, alto) ==
    LET b == BuscarLateral(dets, [c \in CLASES_Z |-> NoneVal])
        sin_ref == b.y_coords[CLASE_REFERENCIA] = NoneVal
        yc == IF sin_ref
              THEN [b.y_coords EXCEPT ![CLASE_REFERENCIA] = alto \div 2]
              ELSE b.y_coords
    IN  IF b.parada
        THEN [code |-> CODIGO_PARADA, z |-> 0, log |-> "parada", fallback |-> FALSE]
        ELSE IF \A c \in CLASES_Z : yc[c] # NoneVal /\ yc[c] # 0
        THEN LET r == _calcular_correccion_z(yc[CLASE_REFERENCIA],
                          yc[CLASE_BORDE_ENV], yc[CLASE_MITAD_ENV])
             IN  [code |-> IF r.log = "escala" THEN CODIGO_PARADA ELSE CODIGO_OK,
                  z |-> r.z, log |-> r.log, fallback |-> sin_ref]
        ELSE [code |-> CODIGO_OK, z |-> 0, log |-> "faltan", fallback |-> sin_ref]

\* _ejecutar_inferencia_lateral(frame_lat): alto is frame_lat.shape[0].
\* all(y_coords.values()) is false for None and for a centre of 0.
_ejecutar_inferencia_lateral(dets, alto) ==
    LET b == BuscarLateral(dets, [c \in CLASES_Z |-> NoneVal])
        sin_ref == b.y_coords[CLASE_REFERENCIA] = NoneVal
        yc == IF sin_ref
              THEN [b.y_coords EXCEPT ![CLASE_REFERENCIA] = alto \div 2]
              ELSE b.y_coords
    IN  IF b.parada
        THEN [code |-> CODIGO_PARADA, z |-> 0, log |-> "parada", fallback |-> FALSE]
        ELSE IF \A c \in CLASES_Z : yc[c] # NoneVal /\ yc[c] # 0
        THEN Unico({[code |-> CODIGO_OK, z |-> r.z, log |-> r.log,
                     fallback |-> sin_ref] :
                       r \in {_calcular_correccion_z(yc[CLASE_REFERENCIA],
                                  yc[CLASE_BORDE_ENV], yc[CLASE_MITAD_ENV])}})
        ELSE [code |-> CODIGO_OK, z |-> 0, log |-> "faltan", fallback |-> sin_ref]

\* variant: the fault flag follows the last detection seen
RECURSIVE BuscarSuperior_UltimoDecide(_, _, _)
BuscarSuperior_UltimoDecide(dets, pos, qc) ==
    IF dets = << >> THEN [pos |-> pos, qc |-> qc]
    ELSE LET d == Head(dets)
             x == Centro(d.x1, d.x2)
             qc2 == d.cls \in CLASES_FALLO_SUPERIOR
             pos2 == IF d.cls = CLASE_VACIO
                     THEN [k \in DOMAIN pos \cup {x} |->
                              IF k = x THEN "VACIO" ELSE pos[k]]
                     ELSE IF d.cls = CLASE_POSICION /\ x \notin DOMAIN pos
                     THEN [k \in DOMAIN pos \cup {x} |->
                              IF k = x THEN "PRODUCTO" ELSE pos[k]]
                     ELSE pos
         IN  BuscarSuperior_UltimoDecide(Tail(dets), pos2, qc2)

\* variant: the first marker seen at a pixel X is kept, of either class
RECURSIVE BuscarSuperior_PrimeroGana(_, _, _)
BuscarSuperior_PrimeroGana(dets, pos, qc) ==
    IF dets = << >> THEN [pos |-> pos, qc |-> qc]
    ELSE LET d == Head(dets)
             x == Centro(d.x1, d.x2)
             qc2 == qc \/ d.cls \in CLASES_FALLO_SUPERIOR
             pos2 == IF d.cls \in {CLASE_VACIO, CLASE_POSICION}
                        /\ x \notin DOMAIN pos
                     THEN [k \in DOMAIN pos \cup {x} |->
                              IF k # x THEN pos[k]
                              ELSE IF d.cls = CLASE_VACIO THEN "VACIO"
                              ELSE "PRODUCTO"]
                     ELSE pos
         IN  BuscarSuperior_PrimeroGana(Tail(dets), pos2, qc2)

\* the detection loop of _ejecutar_inferencia_superior: the dictionary
\* detecciones_por_posicion as a function from x_center to its state
RECURSIVE BuscarSuperior(_, _, _)
BuscarSuperior(dets, pos, qc) ==
    IF dets = << >> THEN [pos |-> pos, qc |-> qc]
    ELSE LET d == Head(dets)
             x == Centro(d.x1, d.x2)
             qc2 == qc \/ d.cls \in CLASES_FALLO_SUPERIOR
             pos2 == IF d.cls = CLASE_VACIO
                     THEN [k \in DOMAIN pos \cup {x} |->
                              IF k = x THEN "VACIO" ELSE pos[k]]
                     ELSE IF d.cls = CLASE_POSICION /\ x \notin DOMAIN pos
                     THEN [k \in DOMAIN pos \cup {x} |->
                              IF k = x THEN "PRODUCTO" ELSE pos[k]]
                     ELSE pos
         IN  BuscarSuperior(Tail(dets), pos2, qc2)

\* the scan over X_CENTROS_IDEALES.items(): first column at minimum distance
ColumnaMasCercana(centros, x) ==
    CHOOSE c \in DOMAIN centros :
        /\ \A k \in DOMAIN centros : Abs(x - centros[c]) <= Abs(x - centros[k])
        /\ \A k \in DOMAIN centros :
              Abs(x - centros[k]) = Abs(x - centros[c]) => c <= k

\* variant: without calibration the answer is OK instead of a quality fault
_ejecutar_inferencia_superior_SinCalibrarOK(vp, dets) ==
    IF ~vp.calibrado_y
    THEN [code |-> CODIGO_OK, conteo |-> 0, correccion_y |-> 0]
    ELSE LET b == BuscarSuperior(dets, << >>, FALSE)
             productos == {x \in DOMAIN b.pos : b.pos[x] = "PRODUCTO"}
             conteo == Cardinality(productos)
         IN  IF productos = {}
             THEN [code |-> IF b.qc THEN CODIGO_FALLO_QC ELSE CODIGO_OK,
                   conteo |-> conteo, correccion_y |-> 0]
             ELSE LET x_trabajo == CHOOSE x \in productos :
                                      \A o \in productos : x <= o
                      col == ColumnaMasCercana(vp.X_CENTROS_IDEALES, x_trabajo)
                      ideal == vp.X_CENTROS_IDEALES[col]
                      fuera == Abs(x_trabajo - ideal) > TOLERANCIA_COLUMNA_PX
                      corr == IF fuera
                              THEN Max2(Min2(x_trabajo - ideal, CORRECCION_Y_FIJA_PX),
                                        -CORRECCION_Y_FIJA_PX)
                              ELSE 0
                  IN  [code |-> IF b.qc \/ fuera THEN CODIGO_FALLO_QC ELSE CODIGO_OK,
                       conteo |-> conteo, correccion_y |-> corr]

\* variant: the work column is the lowest position of either state
_ejecutar_inferencia_superior_TrabajoVacio(vp, dets) ==
    IF ~vp.calibrado_y
    THEN [code |-> CODIGO_FALLO_QC, conteo |-> 0, correccion_y |-> 0]
    ELSE LET b == BuscarSuperior(dets, << >>, FALSE)
             productos == {x \in DOMAIN b.pos : b.pos[x] = "PRODUCTO"}
             conteo == Cardinality(productos)
         IN  IF productos = {}
             THEN [code |-> IF b.qc THEN CODIGO_FALLO_QC ELSE CODIGO_OK,
                   conteo |-> conteo, correccion_y |-> 0]
             ELSE LET x_trabajo == CHOOSE x \in DOMAIN b.pos :
                                      \A o \in DOMAIN b.pos : x <= o
                      col == ColumnaMasCercana(vp.X_CENTROS_IDEALES, x_trabajo)
                      ideal == vp.X_CENTROS_IDEALES[col]
                      fuera == Abs(x_trabajo - ideal) > TOLERANCIA_COLUMNA_PX
                      corr == IF fuera
                              THEN Max2(Min2(x_trabajo - ideal, CORRECCION_Y_FIJA_PX),
                                        -CORRECCION_Y_FIJA_PX)
                              ELSE 0
                  IN  [code |-> IF b.qc \/ fuera THEN CODIGO_FALLO_QC ELSE CODIGO_OK,
                       conteo |-> conteo, correccion_y |-> corr]

\* variant: the lateral correction is not limited
_ejecutar_inferencia_superior_SinLimite(vp, dets) ==
    IF ~vp.calibrado_y
    THEN [code |-> CODIGO_FALLO_QC, conteo |-> 0, correccion_y |-> 0]
    ELSE LET b == BuscarSuperior(dets, << >>, FALSE)
             productos == {x \in DOMAIN b.pos : b.pos[x] = "PRODUCTO"}
             conteo == Cardinality(productos)
         IN  IF productos = {}
             THEN [code |-> IF b.qc THEN CODIGO_FALLO_QC ELSE CODIGO_OK,
                   conteo |-> conteo, correccion_y |-> 0]
             ELSE LET x_trabajo == CHOOSE x \in productos :
                                      \A o \in productos : x <= o
                      col == ColumnaMasCercana(vp.X_CENTROS_IDEALES, x_trabajo)
                      ideal == vp.X_CENTROS_IDEALES[col]
                      fuera == Abs(x_trabajo - ideal) > TOLERANCIA_COLUMNA_PX
                      corr == IF fuera THEN x_trabajo - ideal ELSE 0
                  IN  [code |-> IF b.qc \/ fuera THEN CODIGO_FALLO_QC ELSE CODIGO_OK,
                       conteo |-> conteo, correccion_y |-> corr]

\* variant: empty columns are counted as rows too
_ejecutar_inferencia_superior_CuentaVacios(vp, dets) ==
    IF ~vp.calibrado_y
    THEN [code |-> CODIGO_FALLO_QC, conteo |-> 0, correccion_y |-> 0]
    ELSE LET b == BuscarSuperior(dets, << >>, FALSE)
             productos == {x \in DOMAIN b.pos : b.pos[x] = "PRODUCTO"}
             conteo == Cardinality(DOMAIN b.pos)
         IN  IF productos = {}
             THEN [code |-> IF b.qc THEN CODIGO_FALLO_QC ELSE CODIGO_OK,
                   conteo |-> conteo, correccion_y |-> 0]
             ELSE LET x_trabajo == CHOOSE x \in productos :
                                      \A o \in productos : x <= o
                      col == ColumnaMasCercana(vp.X_CENTROS_IDEALES, x_trabajo)
                      ideal == vp.X_CENTROS_IDEALES[col]
                      fuera == Abs(x_trabajo - ideal) > TOLERANCIA_COLUMNA_PX
                      corr == IF fuera
                              THEN Max2(Min2(x_trabajo - ideal, CORRECCION_Y_FIJA_PX),
                                        -CORRECCION_Y_FIJA_PX)
                              ELSE 0
                  IN  [code |-> IF b.qc \/ fuera THEN CODIGO_FALLO_QC ELSE CODIGO_OK,
                       conteo |-> conteo, correccion_y |-> corr]

\* _ejecutar_inferencia_superior(frame_sup)
_ejecutar_inferencia_superior(vp, dets) ==
    IF ~vp.calibrado_y
    THEN [code |-> CODIGO_FALLO_QC, conteo |-> 0, correccion_y |-> 0]
    ELSE LET b == BuscarSuperior(dets, << >>, FALSE)
             productos == {x \in DOMAIN b.pos : b.pos[x] = "PRODUCTO"}
             conteo == Cardinality(productos)
         IN  IF productos = {}
             THEN [code |-> IF b.qc THEN CODIGO_FALLO_QC ELSE CODIGO_OK,
                   conteo |-> conteo, correccion_y |-> 0]
             ELSE LET x_trabajo == CHOOSE x \in productos :
                                      \A o \in productos : x <= o
                      col == ColumnaMasCercana(vp.X_CENTROS_IDEALES, x_trabajo)
                      ideal == vp.X_CENTROS_IDEALES[col]
                      fuera == Abs(x_trabajo - ideal) > TOLERANCIA_COLUMNA_PX
                      corr == IF fuera
                              THEN Max2(Min2(x_trabajo - ideal, CORRECCION_Y_FIJA_PX),
                                        -CORRECCION_Y_FIJA_PX)
                              ELSE 0
                  IN  [code |-> IF b.qc \/ fuera THEN CODIGO_FALLO_QC ELSE CODIGO_OK,
                       conteo |-> conteo, correccion_y |-> corr]

\* variant: the top camera is analysed even when the side camera stops
procesar_frames_dual_SiempreSuperior(vp, dets_sup, dets_lat, alto) ==
    LET lat == _ejecutar_inferencia_lateral(dets_lat, alto)
        parada == lat.code = CODIGO_PARADA
        sup == _ejecutar_inferencia_superior(vp, dets_sup)
    IN  [plc_success |-> ~parada,
         filas |-> sup.conteo,
         desviacion_y_mm |-> lat.z,
         correccion_z_cmm |-> lat.z,
         desviacion_y_px |-> sup.correccion_y,
         codigo_respuesta_plc |->
             IF parada THEN CODIGO_PARADA
             ELSE IF sup.code = CODIGO_FALLO_QC THEN CODIGO_FALLO_QC
             ELSE CODIGO_OK,
         log_z |-> lat.log,
         resp_lat_code |-> lat.code,
         superior_invocada |-> TRUE]

\* variant: a quality fault of the top camera is reported as a failure
procesar_frames_dual_QCEsFallo(vp, dets_sup, dets_lat, alto) ==
    LET lat == _ejecutar_inferencia_lateral(dets_lat, alto)
        parada == lat.code = CODIGO_PARADA
        sup == IF ~parada
               THEN _ejecutar_inferencia_superior(vp, dets_sup)
               ELSE [code |-> CODIGO_OK, conteo |-> 0, correccion_y |-> 0]
    IN  [plc_success |-> ~parada /\ sup.code # CODIGO_FALLO_QC,
         filas |-> sup.conteo,
         desviacion_y_mm |-> lat.z,
         correccion_z_cmm |-> lat.z,
         desviacion_y_px |-> sup.correccion_y,
         codigo_respuesta_plc |->
             IF parada THEN CODIGO_PARADA
             ELSE IF sup.code = CODIGO_FALLO_QC THEN CODIGO_FALLO_QC
             ELSE CODIGO_OK,
         log_z |-> lat.log,
         resp_lat_code |-> lat.code,
         superior_invocada |-> ~parada]

\* variant: the deviation is the top camera's pixel correction times
\* mm_per_pixel (0.5 mm, 50 hundredths per pixel), as line 325 computes it
procesar_frames_dual_DesviacionY(vp, dets_sup, dets_lat, alto) ==
    LET lat == _ejecutar_inferencia_lateral(dets_lat, alto)
        parada == lat.code = CODIGO_PARADA
        sup == IF ~parada
               THEN _ejecutar_inferencia_superior(vp, dets_sup)
               ELSE [code |-> CODIGO_OK, conteo |-> 0, correccion_y |-> 0]
    IN  [plc_success |-> ~parada,
         filas |-> sup.conteo,
         desviacion_y_mm |-> sup.correccion_y * 50,
         correccion_z_cmm |-> lat.z,
         desviacion_y_px |-> sup.correccion_y,
         codigo_respuesta_plc |->
             IF parada THEN CODIGO_PARADA
             ELSE IF sup.code = CODIGO_FALLO_QC THEN CODIGO_FALLO_QC
             ELSE CODIGO_OK,
         log_z |-> lat.log,
         resp_lat_code |-> lat.code,
         superior_invocada |-> ~parada]

\* procesar_frames_dual(frame_sup, frame_lat); desviacion_y_mm is in
\* hundredths of a millimetre (correccion_z / 100.0 mm)
procesar_frames_dual(vp, dets_sup, dets_lat, alto) ==
    Unico({
        LET parada == lat.code = CODIGO_PARADA
            sup == IF ~parada
                   THEN _ejecutar_inferencia_superior(vp, dets_sup)
                   ELSE [code |-> CODIGO_OK, conteo |-> 0, correccion_y |-> 0]
        IN  [plc_success |-> ~parada,
             filas |-> sup.conteo,
             desviacion_y_mm |-> lat.z,
             correccion_z_cmm |-> lat.z,
             desviacion_y_px |-> sup.correccion_y,
             codigo_respuesta_plc |->
                 IF parada THEN CODIGO_PARADA
                 ELSE IF sup.code = CODIGO_FALLO_QC THEN CODIGO_FALLO_QC
                 ELSE CODIGO_OK,
             log_z |-> lat.log,
             resp_lat_code |-> lat.code,
             superior_invocada |-> ~parada] :
        lat \in {_ejecutar_inferencia_lateral(dets_lat, alto)}})

\* ------------------------------------------------------------------
\* Frames the video sources deliver (detections per frame)
\* ------------------------------------------------------------------
ALTO_IMAGEN == 480

SupBueno == << [cls |-> CLASE_POSICION, x1 |-> 90, x2 |-> 110],
               [cls |-> CLASE_POSICION, x1 |-> 140, x2 |-> 160],
               [cls |-> CLASE_POSICION, x1 |-> 190, x2 |-> 210],
               [cls |-> CLASE_VACIO, x1 |-> 240, x2 |-> 260],
               [cls |-> CLASE_VACIO, x1 |-> 290, x2 |-> 310] >>
SupFallo == << [cls |-> "error_apilado", x1 |-> 100, x2 |-> 140],
               [cls |-> CLASE_POSICION, x1 |-> 130, x2 |-> 150] >>
SupVacio == << >>
FramesSup == {SupBueno, SupFallo}

LatBueno == << [cls |-> CLASE_REFERENCIA, y1 |-> 190, y2 |-> 210],
               [cls |-> CLASE_BORDE_ENV, y1 |-> 290, y2 |-> 310],
               [cls |-> CLASE_MITAD_ENV, y1 |-> 240, y2 |-> 260] >>
LatParada == << [cls |-> CLASE_REFERENCIA, y1 |-> 190, y2 |-> 210],
                [cls |-> CLASE_BORDE_ENV, y1 |-> 290, y2 |-> 310],
                [cls |-> CLASE_MITAD_ENV, y1 |-> 240, y2 |-> 260],
                [cls |-> "error_caido", y1 |-> 300, y2 |-> 400] >>
LatVacio == << >>
FramesLat == {LatBueno, LatParada}

\* what the two captures deliver at one pair of reads: each video is read
\* on its own (main2.py:395-396) and _calibrar_sistema rewinds only the
\* top one (main2.py:359), so any two frames can meet
Escenas == [sup : FramesSup, lat : FramesLat]

\* a cv2.VideoCapture attribute of the shell: None, a capture that did not
\* open (or was released), an open capture that delivers no frame, an open
\* capture with frames, and the same with every frame read ("final": the
\* next read() fails until the position is set back to 0).  The videos'
\* lengths are not fixed, so a read may or may not leave the capture at
\* its end.  Only the top capture is read without a rewind
\* (main2.py:351), so only its position is followed.
EstadosVideo == {"None", "cerrado", "vacio", "abierto", "final"}
isOpened(v) == v \in {"vacio", "abierto", "final"}
\* ret of read() at the current position
LeeEnPosicion(v) == v = "abierto"
\* ret of read(), also after the rewind of main2.py:399-406
PuedeLeer(v) == v \in {"abierto", "final"}
\* the top capture after a successful read()
TrasLeer == {"abierto", "final"}
\* cv2.VideoCapture(archivo) up to the end of _cargar_video_sup/_lat: the
\* file does not open, opens without frames, or opens and is rewound
CapturasNuevas == {"cerrado", "vacio", "abierto"}

\* The VisionProcessor objects the shell can hold, and calibrar_y and
\* procesar_frames_dual tabulated over them and over the frames above
\* (each entry is the operator's value, computed once)
CalibracionesPosibles == {VPNuevo} \cup {calibrar_y(VPNuevo, f) : f \in FramesSup}
VPsPosibles ==
    CalibracionesPosibles \cup {VPSinModelos, VPSoloSup}
        \cup {calibrar_y(VPSoloSup, f) : f \in FramesSup}

TablaCalibrar ==
    [v \in VPsPosibles, f \in FramesSup |-> calibrar_y(v, f)]

TablaProcesar ==
    [v \in CalibracionesPosibles, e \in Escenas |->
        procesar_frames_dual(v, e.sup, e.lat, ALTO_IMAGEN)]

\* ------------------------------------------------------------------
\* State
\* ------------------------------------------------------------------
VARIABLES
    modo_realtime_activo,  \* SistemaPLCYOLO.modo_realtime_activo
    modo_simulacion,       \* SistemaPLCYOLO.modo_simulacion
    config_vision,         \* SistemaPLCYOLO.config['vision'] is a dictionary
    modelo_path_sup,       \* SistemaPLCYOLO.modelo_path_sup is not None
    modelo_path_lat,       \* SistemaPLCYOLO.modelo_path_lat is not None
    root,                  \* the Tk root: in its mainloop or destroyed
    video_cap_sup,         \* SistemaPLCYOLO.video_cap_sup
    video_cap_lat,         \* SistemaPLCYOLO.video_cap_lat
    ui,                    \* enabled state of btn_iniciar, btn_detener,
                           \* chk_simulacion and btn_conectar_plc
    vision_processor,      \* SistemaPLCYOLO.vision_processor
    frame_actual,          \* frame_actual_sup / frame_actual_lat
    pila,                  \* handlers suspended in root.update(), innermost last
    timers,                \* pending root.after(.., _loop_principal) callbacks
    inicios,               \* starts that reached 'Sistema iniciado'
    controlador_plc,       \* the PLCController the shell holds
    regs,                  \* the PLC's registers as the shell's controller sees them
    bitacora,              \* sub-writes escribir_resultados issued in the last segment
    resultado,             \* dictionary procesar_frames_dual returned in the last segment
    evento,                \* the last handler segment and what it did
    banco                  \* a direct call of one method: its inputs and its result

vars == << modo_realtime_activo, modo_simulacion, config_vision,
           modelo_path_sup, modelo_path_lat, root, video_cap_sup,
           video_cap_lat, ui,
           vision_processor, frame_actual, pila, timers, inicios,
           controlador_plc, regs, bitacora, resultado, evento,
           banco >>


ResultadoNulo == [plc_success |-> FALSE, filas |-> 0, desviacion_y_mm |-> 0,
                  correccion_z_cmm |-> 0, desviacion_y_px |-> 0,
                  codigo_respuesta_plc |-> CODIGO_OK, log_z |-> "",
                  resp_lat_code |-> CODIGO_OK, superior_invocada |-> FALSE]

\* a segment that neither processes frames nor writes results
SinSalida == bitacora' = << >> /\ resultado' = ResultadoNulo

\* op: the segment; sondeo: the cycle's trigger poll returned 'request';
\* escribio: escribir_resultados was invoked; ret: what the PLCController
\* call returned; fallo: a transport call raised; io: transport reads and
\* writes issued; reprog: root.after scheduled the next cycle; decide: the
\* cycle reached its write decision (main2.py:458) with a result
Evento(op) == [op |-> op, sondeo |-> FALSE, escribio |-> FALSE, ret |-> FALSE,
               fallo |-> FALSE, io |-> 0, reprog |-> FALSE, decide |-> FALSE]

\* _actualizar_estado_ui (main2.py:290-302): plc_ok, modelos_ok and
\* videos_ok; ms and ml are the model paths, vs and vl the captures
_actualizar_estado_ui(u, plc, sim, ms, ml, vs, vl) ==
    [u EXCEPT !.btn_iniciar = /\ (plc.creado /\ plc.is_connected) \/ sim
                              /\ ms /\ ml
                              /\ isOpened(vs) /\ isOpened(vl)]

\* the widget part of _detener_sistema (main2.py:372-380)
_detener_sistema(u, plc) ==
    [u EXCEPT !.btn_iniciar = TRUE, !.btn_detener = FALSE, !.chk_simulacion = TRUE,
              !.btn_conectar_plc = IF ~(plc.creado /\ plc.is_connected)
                                   THEN TRUE ELSE u.btn_conectar_plc]

\* the widgets after a _detener_sistema call made by a handler: on a
\* destroyed window btn_iniciar.config (main2.py:373) raises TclError and
\* no widget is changed
TrasDetener(u, plc) ==
    IF root = "destruida" THEN u ELSE _detener_sistema(u, plc)

BancoNulo == [op |-> "ninguna"]

\* SistemaPLCYOLO.__init__
InitSistema ==
    /\ modo_realtime_activo = FALSE
    /\ modo_simulacion \in BOOLEAN
    /\ config_vision \in BOOLEAN
    /\ modelo_path_sup = FALSE
    /\ modelo_path_lat = FALSE
    /\ root = "mainloop"
    /\ video_cap_sup = "None"
    /\ video_cap_lat = "None"
    /\ ui = [btn_iniciar |-> FALSE, btn_detener |-> FALSE, chk_simulacion |-> TRUE,
             btn_conectar_plc |-> TRUE]
    /\ vision_processor = VPAusente
    /\ frame_actual = [sup |-> SupVacio, lat |-> LatVacio]
    /\ pila = << >>
    /\ timers = 0
    /\ inicios = 0
    /\ controlador_plc = PLCAusente
    /\ regs = [D28 |-> 0, D29 |-> << 0, 0 >>, D14 |-> 0,
               valor_de_codigo |-> FALSE, filas_de_codigo |-> FALSE]
    /\ bitacora = << >>
    /\ resultado = ResultadoNulo
    /\ evento = Evento("init")

Init == InitSistema /\ banco = BancoNulo

\* ------------------------------------------------------------------
\* SistemaPLCYOLO (main2.py)
\* ------------------------------------------------------------------
Marco(k, sondeo, frame) == [k |-> k, sondeo |-> sondeo, frame |-> frame]

Cima == pila[Len(pila)]
Base == SubSeq(pila, 1, Len(pila) - 1)

EnPila(k) == Cardinality({i \in 1..Len(pila) : pila[i].k = k})

\* variant: the result is sent whatever the mode and the controller
DebeEnviar_SinCondicion(sim, plc, res) == TRUE

\* variant: the controller attribute is not looked at
DebeEnviar_SinCliente(sim, plc, res) == ~sim

\* the write decision of _loop_principal (main2.py:458)
DebeEnviar(sim, plc, res) == ~sim /\ plc.creado

\* variant: the run flag is not looked at
CicloPermitido_Siempre(activo) == TRUE

\* the cycle-boundary check of _loop_principal (main2.py:387)
CicloPermitido(activo) == activo

\* the window takes a click: while the modal messagebox of main2.py:366
\* is open Tk's event loop runs the due root.after callbacks and the
\* buttons take no clicks
AtiendeClicks == root = "mainloop" /\ EnPila("error_calibracion") = 0

\* _loop_principal up to root.update() (main2.py:382-433) or, without a
\* request, to root.after (main2.py:473-478).  pilaB, timersB and supB are
\* the stack, the pending timers and the top capture the caller leaves.
\* When a frame cannot be read, also after the rewind, the loop stops the
\* system and returns without root.after (main2.py:408-412; with no
\* capture at all the AttributeError reaches the except of line 480,
\* which stops it too).
_loop_principal(pilaB, timersB, supB) ==
    IF ~CicloPermitido(modo_realtime_activo)
    THEN /\ pila' = pilaB
         /\ timers' = timersB
         /\ video_cap_sup' = supB
         /\ evento' = Evento("loop_detenido")
         /\ UNCHANGED << modo_realtime_activo, ui, frame_actual,
                         controlador_plc >>
    ELSE IF ~PuedeLeer(supB) \/ ~PuedeLeer(video_cap_lat)
    THEN /\ modo_realtime_activo' = FALSE
         /\ ui' = TrasDetener(ui, controlador_plc)
         /\ pila' = pilaB
         /\ timers' = timersB
         /\ video_cap_sup' \in IF PuedeLeer(supB) THEN TrasLeer ELSE {supB}
         /\ evento' = Evento("fuentes_perdidas")
         /\ UNCHANGED << frame_actual, controlador_plc >>
    ELSE \E esc \in Escenas, falla \in BOOLEAN :
         LET l == IF modo_simulacion
                  THEN [plc |-> controlador_plc, ret |-> TRUE, io |-> 0,
                        fallo |-> FALSE]
                  ELSE IF controlador_plc.creado /\ controlador_plc.is_connected
                  THEN leer_solicitud_inspeccion(controlador_plc, regs, falla)
                  ELSE [plc |-> controlador_plc, ret |-> FALSE, io |-> 0,
                        fallo |-> FALSE]
         IN  /\ frame_actual' = esc
             /\ video_cap_sup' \in TrasLeer
             /\ UNCHANGED << modo_realtime_activo, ui >>
             /\ controlador_plc' = l.plc
             /\ IF l.ret
                THEN /\ Len(pilaB) < MaxPila
                     /\ pila' = Append(pilaB, Marco("loop", ~modo_simulacion, << >>))
                     /\ timers' = timersB
                ELSE /\ pila' = pilaB
                     /\ timers' = timersB + 1
             /\ evento' = [Evento("ciclo_inicio") EXCEPT
                              !.sondeo = (~modo_simulacion /\ l.ret),
                              !.ret = l.ret, !.fallo = l.fallo, !.io = l.io,
                              !.reprog = ~l.ret]

\* a due root.after callback runs _loop_principal
TimerLoop ==
    /\ root = "mainloop"
    /\ timers > 0
    /\ _loop_principal(pila, timers - 1, video_cap_sup)
    /\ UNCHANGED << modo_simulacion, video_cap_lat,
                    vision_processor, inicios, regs, config_vision, modelo_path_sup,
                    modelo_path_lat, root >>
    /\ SinSalida
    /\ UNCHANGED banco

\* _loop_principal after root.update() (main2.py:435-483).  r is the
\* dictionary procesar_frames_dual returns for the current frames and w
\* the outcome of escribir_resultados.  Without a VisionProcessor the
\* loop stops the system and returns (main2.py:437-440); without a side
\* model procesar_frames_dual raises at its first predict
\* (vision_processor_prueba.py:166) and the except of line 480 stops it.
\* On a destroyed window the segment ends in the except of line 480 too.
FinCiclo ==
    /\ pila # << >>
    /\ Cima.k = "loop"
    /\ pila' = Base
    /\ IF ~vision_processor.creado \/ ~vision_processor.modelo_lat
       THEN /\ modo_realtime_activo' = FALSE
            /\ ui' = TrasDetener(ui, controlador_plc)
            /\ evento' = [Evento("ciclo_fin") EXCEPT !.sondeo = Cima.sondeo]
            /\ SinSalida
            /\ UNCHANGED << controlador_plc, regs, timers >>
       ELSE IF root = "destruida"
       THEN \* _mostrar_resultado (main2.py:455) raises TclError on the
            \* destroyed text widget: the except of line 480 clears the
            \* run flag; lines 458 and 478 are not reached
            \E r \in {TablaProcesar[vision_processor, frame_actual]} :
               /\ resultado' = r
               /\ bitacora' = << >>
               /\ modo_realtime_activo' = FALSE
               /\ evento' = [Evento("ciclo_fin") EXCEPT !.sondeo = Cima.sondeo]
               /\ UNCHANGED << ui, controlador_plc, regs, timers >>
       ELSE
       \E falla \in 0..3 :
       \E r \in {TablaProcesar[vision_processor, frame_actual]} :
       \E w \in {escribir_resultados(controlador_plc, regs, r.desviacion_y_mm,
                                     r.filas, r.plc_success, falla)} :
       LET enviar == DebeEnviar(modo_simulacion, controlador_plc, r)
           \* main2.py:467-470: plc_status_var is a StringVar, which has no
           \* config(); the AttributeError reaches the except of line 480
           excepcion == enviar /\ ~w.ret
           fallo == enviar /\ \E i \in 1..Len(w.bitacora) : ~w.bitacora[i].ok
       IN  /\ resultado' = r
           /\ controlador_plc' = IF enviar THEN w.plc ELSE controlador_plc
           /\ regs' = IF enviar THEN w.regs ELSE regs
           /\ bitacora' = IF enviar THEN w.bitacora ELSE << >>
           /\ modo_realtime_activo' = IF excepcion THEN FALSE ELSE modo_realtime_activo
           \* _detener_sistema sees the controller as the write left it
           /\ ui' = IF excepcion THEN _detener_sistema(ui, w.plc) ELSE ui
           /\ timers' = IF excepcion THEN timers ELSE timers + 1
           /\ evento' = [Evento("ciclo_fin") EXCEPT
                            !.sondeo = Cima.sondeo, !.escribio = enviar,
                            !.ret = (enviar /\ w.ret), !.fallo = fallo,
                            !.io = IF enviar THEN Len(w.bitacora) ELSE 0,
                            !.reprog = ~excepcion, !.decide = TRUE]
    /\ UNCHANGED << modo_simulacion, video_cap_sup, video_cap_lat, vision_processor,
                    frame_actual, inicios, config_vision, modelo_path_sup,
                    modelo_path_lat, root >>
    /\ UNCHANGED banco

\* click on btn_iniciar: _iniciar_sistema up to root.update() (main2.py:304-312)
IniciarSistema ==
    /\ AtiendeClicks
    /\ ui.btn_iniciar
    /\ IF modo_realtime_activo
       THEN UNCHANGED pila
       ELSE /\ Len(pila) < MaxPila
            /\ inicios + EnPila("iniciar") < MaxInicios
            /\ pila' = Append(pila, Marco("iniciar", FALSE, << >>))
    /\ evento' = Evento("iniciar_click")
    /\ UNCHANGED << modo_realtime_activo, modo_simulacion, video_cap_sup, video_cap_lat, ui,
                    vision_processor, frame_actual, timers, inicios,
                    controlador_plc, regs, config_vision, modelo_path_sup,
                    modelo_path_lat, root >>
    /\ SinSalida
    /\ UNCHANGED banco

\* what VisionProcessor(...) leaves in self.vision_processor
\* (main2.py:314-319): with a 'vision' section that is no dictionary the
\* constructor raises (vision_processor_prueba.py:34-38) and the attribute
\* keeps its value; otherwise a new object, with the models its files gave
ProcesadoresNuevos(vp) ==
    IF config_vision THEN {VPNuevo, VPSoloSup, VPSinModelos} ELSE {vp}

\* _iniciar_sistema after root.update(), then _calibrar_sistema up to its
\* root.update() or to its messagebox (main2.py:314-366).  When the
\* constructor raises or the models are not loaded an error is shown and
\* the handler returns (main2.py:321-325, 329-332).  Without an open top
\* video _calibrar_sistema returns at once and leaves the system marked
\* active (main2.py:347-349); when the calibration frame cannot be read,
\* the video being empty or at its end, the handler waits in the
\* messagebox of line 366 with the system marked active.  On a destroyed
\* window a start whose models loaded sets the run flag (line 334) and
\* ends at the widget command of line 335.
FinIniciar ==
    /\ pila # << >>
    /\ Cima.k = "iniciar"
    /\ \E vp \in ProcesadoresNuevos(vision_processor) :
       LET activa == [ui EXCEPT !.btn_iniciar = FALSE, !.btn_detener = TRUE,
                                !.chk_simulacion = FALSE,
                                !.btn_conectar_plc = FALSE]
       IN  /\ vision_processor' = vp
           /\ IF ~config_vision \/ ~(vp.modelo_sup /\ vp.modelo_lat)
              THEN /\ pila' = Base
                   /\ UNCHANGED << modo_realtime_activo, ui, inicios,
                                   video_cap_sup >>
              ELSE IF root = "destruida"
              THEN \* btn_iniciar.config (main2.py:335) raises TclError
                   /\ modo_realtime_activo' = TRUE
                   /\ pila' = Base
                   /\ UNCHANGED << ui, inicios, video_cap_sup >>
              ELSE /\ modo_realtime_activo' = TRUE
                   /\ ui' = activa
                   /\ inicios' = inicios + 1
                   /\ IF ~isOpened(video_cap_sup)
                      THEN /\ pila' = Base
                           /\ UNCHANGED video_cap_sup
                      ELSE IF ~LeeEnPosicion(video_cap_sup)
                      THEN /\ pila' = Append(Base,
                                       Marco("error_calibracion", FALSE, << >>))
                           /\ UNCHANGED video_cap_sup
                      ELSE /\ \E fc \in FramesSup :
                                 pila' = Append(Base, Marco("calibrar", FALSE, fc))
                           /\ video_cap_sup' \in TrasLeer
    /\ evento' = Evento("iniciar")
    /\ UNCHANGED << modo_simulacion, video_cap_lat, frame_actual, timers,
                    controlador_plc, regs, config_vision, modelo_path_sup,
                    modelo_path_lat, root >>
    /\ SinSalida
    /\ UNCHANGED banco

\* _calibrar_sistema after its messagebox: _detener_sistema (main2.py:367)
FinErrorCalibracion ==
    /\ pila # << >>
    /\ Cima.k = "error_calibracion"
    /\ pila' = Base
    /\ modo_realtime_activo' = FALSE
    /\ ui' = TrasDetener(ui, controlador_plc)
    /\ evento' = Evento("error_calibracion")
    /\ UNCHANGED << modo_simulacion, video_cap_sup, video_cap_lat,
                    vision_processor, frame_actual, timers, inicios,
                    controlador_plc, regs, config_vision, modelo_path_sup,
                    modelo_path_lat, root >>
    /\ SinSalida
    /\ UNCHANGED banco

\* _calibrar_sistema after root.update(): calibrar_y, the rewind of the
\* top video, then the first _loop_principal call (main2.py:357-363)
FinCalibrar ==
    /\ pila # << >>
    /\ Cima.k = "calibrar"
    /\ vision_processor' = TablaCalibrar[vision_processor, Cima.frame]
    /\ _loop_principal(Base, timers,
                       IF video_cap_sup = "final" THEN "abierto" ELSE video_cap_sup)
    /\ UNCHANGED << modo_simulacion, video_cap_lat,
                    inicios, regs, config_vision, modelo_path_sup,
                    modelo_path_lat, root >>
    /\ SinSalida
    /\ UNCHANGED banco

\* click on btn_detener: _detener_sistema (main2.py:370-380)
DetenerSistema ==
    /\ AtiendeClicks
    /\ ui.btn_detener
    /\ modo_realtime_activo' = FALSE
    /\ ui' = _detener_sistema(ui, controlador_plc)
    /\ evento' = Evento("detener")
    /\ UNCHANGED << modo_simulacion, video_cap_sup, video_cap_lat, vision_processor, frame_actual,
                    pila, timers, inicios, controlador_plc, regs,
                    config_vision, modelo_path_sup,
                    modelo_path_lat, root >>
    /\ SinSalida
    /\ UNCHANGED banco

\* click on chk_simulacion: _toggle_simulacion (main2.py:284-288)
ToggleSimulacion ==
    /\ AtiendeClicks
    /\ ui.chk_simulacion
    /\ modo_simulacion' = ~modo_simulacion
    /\ ui' = _actualizar_estado_ui(ui, controlador_plc, ~modo_simulacion,
                                   modelo_path_sup, modelo_path_lat,
                                   video_cap_sup, video_cap_lat)
    /\ evento' = Evento("toggle")
    /\ UNCHANGED << modo_realtime_activo, video_cap_sup, video_cap_lat, vision_processor,
                    frame_actual, pila, timers, inicios, controlador_plc, regs, config_vision, modelo_path_sup,
                    modelo_path_lat, root >>
    /\ SinSalida
    /\ UNCHANGED banco

\* _cargar_modelo_sup with a file chosen (main2.py:234-240)
CargarModeloSup ==
    /\ AtiendeClicks
    /\ modelo_path_sup' = TRUE
    /\ ui' = _actualizar_estado_ui(ui, controlador_plc, modo_simulacion,
                                   TRUE, modelo_path_lat,
                                   video_cap_sup, video_cap_lat)
    /\ evento' = Evento("cargar_modelo")
    /\ UNCHANGED << modo_realtime_activo, modo_simulacion, config_vision,
                    modelo_path_lat, root, video_cap_sup, video_cap_lat,
                    vision_processor, frame_actual, pila, timers, inicios,
                    controlador_plc, regs >>
    /\ SinSalida
    /\ UNCHANGED banco

\* _cargar_modelo_lat with a file chosen (main2.py:242-248)
CargarModeloLat ==
    /\ AtiendeClicks
    /\ modelo_path_lat' = TRUE
    /\ ui' = _actualizar_estado_ui(ui, controlador_plc, modo_simulacion,
                                   modelo_path_sup, TRUE,
                                   video_cap_sup, video_cap_lat)
    /\ evento' = Evento("cargar_modelo")
    /\ UNCHANGED << modo_realtime_activo, modo_simulacion, config_vision,
                    modelo_path_sup, root, video_cap_sup, video_cap_lat,
                    vision_processor, frame_actual, pila, timers, inicios,
                    controlador_plc, regs >>
    /\ SinSalida
    /\ UNCHANGED banco

\* _cargar_video_sup with a file chosen (main2.py:250-265): the capture is
\* replaced by the chosen file's; when it opens _actualizar_estado_ui
\* runs, a frame is read and the video is rewound, otherwise only an
\* error is shown
CargarVideoSup ==
    /\ AtiendeClicks
    /\ \E v \in CapturasNuevas :
          /\ video_cap_sup' = v
          /\ ui' = IF isOpened(v)
                   THEN _actualizar_estado_ui(ui, controlador_plc, modo_simulacion,
                            modelo_path_sup, modelo_path_lat, v, video_cap_lat)
                   ELSE ui
    /\ evento' = Evento("cargar_video")
    /\ UNCHANGED << modo_realtime_activo, modo_simulacion, video_cap_lat,
                    vision_processor, frame_actual, pila, timers, inicios,
                    controlador_plc, regs, config_vision, modelo_path_sup,
                    modelo_path_lat, root >>
    /\ SinSalida
    /\ UNCHANGED banco

\* _cargar_video_lat with a file chosen (main2.py:267-282)
CargarVideoLat ==
    /\ AtiendeClicks
    /\ \E v \in CapturasNuevas :
          /\ video_cap_lat' = v
          /\ ui' = IF isOpened(v)
                   THEN _actualizar_estado_ui(ui, controlador_plc, modo_simulacion,
                            modelo_path_sup, modelo_path_lat, video_cap_sup, v)
                   ELSE ui
    /\ evento' = Evento("cargar_video")
    /\ UNCHANGED << modo_realtime_activo, modo_simulacion, video_cap_sup,
                    vision_processor, frame_actual, pila, timers, inicios,
                    controlador_plc, regs, config_vision, modelo_path_sup,
                    modelo_path_lat, root >>
    /\ SinSalida
    /\ UNCHANGED banco

\* click on btn_conectar_plc: _conectar_plc (main2.py:204-221).  The
\* constructor call of line 207 passes two arguments to
\* PLCController.__init__(self, config_file), so it raises TypeError before
\* controlador_plc is assigned; the except of line 219 shows the error and
\* the handler returns with every attribute and every button as they were.
_conectar_plc ==
    /\ AtiendeClicks
    /\ ui.btn_conectar_plc
    /\ evento' = Evento("conectar_plc")
    /\ UNCHANGED << modo_realtime_activo, modo_simulacion, config_vision,
                    modelo_path_sup, modelo_path_lat, root, video_cap_sup,
                    video_cap_lat, ui, vision_processor, frame_actual, pila,
                    timers, inicios, controlador_plc, regs >>
    /\ SinSalida
    /\ UNCHANGED banco

\* the window's close button: cerrar (main2.py:550-567).  It stops the
\* system whatever the buttons show, releases the captures, disconnects
\* the controller and destroys the root, which drops the pending
\* root.after callbacks and ends the mainloop; the handlers it interrupted
\* run on when the root.update() or messagebox they wait in returns.
cerrar ==
    /\ root = "mainloop"
    /\ root' = "destruida"
    /\ modo_realtime_activo' = FALSE
    /\ ui' = _detener_sistema(ui, controlador_plc)
    /\ video_cap_sup' = IF video_cap_sup = "None" THEN "None" ELSE "cerrado"
    /\ video_cap_lat' = IF video_cap_lat = "None" THEN "None" ELSE "cerrado"
    /\ controlador_plc' = IF controlador_plc.creado
                          THEN desconectar(controlador_plc)
                          ELSE controlador_plc
    /\ timers' = 0
    /\ evento' = Evento("cerrar")
    /\ UNCHANGED << modo_simulacion, config_vision, modelo_path_sup,
                    modelo_path_lat, vision_processor, frame_actual, pila,
                    inicios, regs >>
    /\ SinSalida
    /\ UNCHANGED banco

Next ==
    \/ TimerLoop
    \/ FinCiclo
    \/ IniciarSistema
    \/ FinIniciar
    \/ FinErrorCalibracion
    \/ FinCalibrar
    \/ DetenerSistema
    \/ ToggleSimulacion
    \/ CargarModeloSup
    \/ CargarModeloLat
    \/ CargarVideoSup
    \/ CargarVideoLat
    \/ _conectar_plc
    \/ cerrar

Spec == Init /\ [][Next]_vars

\* Tk runs a due root.after callback in every event loop, the nested ones
\* of root.update() and of a messagebox included.  A handler suspended
\* beneath a messagebox resumes only when the operator closes the dialog,
\* which nothing guarantees, so the continuations carry no fairness.
SpecJusto ==
    /\ Init
    /\ [][Next]_vars
    /\ WF_vars(TimerLoop)

\* ------------------------------------------------------------------
\* PLCController._int32_to_words called directly
\* ------------------------------------------------------------------
SistemaQuieto ==
    UNCHANGED << modo_realtime_activo, modo_simulacion, config_vision,
                 modelo_path_sup, modelo_path_lat, root,
                 video_cap_sup, video_cap_lat, ui,
                 vision_processor, frame_actual, pila, timers, inicios,
                 controlador_plc, regs, bitacora, resultado, evento >>

\* arguments on both sides of each int32 boundary, of zero and of a word
QsCodec == {-65537, -65536, -32770, -32769, -32768, -32767, -20, -2, -1, 0,
            1, 19, 32766, 32767, 32768, 32769, 65535, 65536, 70000}
RsCodec == {0, 1, 1250, 32767, 32768, 64286, 65534, 65535}
EntradasCodec == {[q |-> q, r |-> r] : q \in QsCodec, r \in RsCodec}

InitCodec ==
    /\ InitSistema
    /\ modo_simulacion = TRUE
    /\ config_vision = TRUE
    /\ banco \in {[op |-> "codec_entrada", e |-> e, words |-> << >>,
                     avisos |-> << >>] : e \in EntradasCodec}

Codificar ==
    /\ banco.op = "codec_entrada"
    /\ banco' = [banco EXCEPT !.op = "codec",
                               !.words = _int32_to_words_ancho(banco.e),
                               !.avisos = avisos_int32_to_words(banco.e)]
    /\ SistemaQuieto

NextCodec == Codificar

SpecCodec == InitCodec /\ [][NextCodec]_vars

\* ------------------------------------------------------------------
\* PLCController called directly, method by method, against a PLC that
\* raises and clears requests (usage of plc_controller.py:302-311).
\* banco.plc is the client, banco.regs the PLC's registers; previo and
\* regs_previos are both before the call, bitacora the register writes
\* the call issued.
\* ------------------------------------------------------------------
RegsIniciales == [D28 |-> 0, D29 |-> << 0, 0 >>, D14 |-> 0,
                  valor_de_codigo |-> FALSE, filas_de_codigo |-> FALSE]

\* arguments of escribir_resultados: deviations in hundredths of a mm and
\* row counts, a negative one included
DesvsBanco == {-1250, 250}
FilasBanco == {-2, 0, 3}

InitPLC ==
    /\ InitSistema
    /\ modo_simulacion = TRUE
    /\ config_vision = TRUE
    /\ banco = [op |-> "plc", plc |-> PLCAusente, regs |-> RegsIniciales,
                config |-> SinConfig]

\* plc = PLCController(config_file)
ConstruirPLC ==
    /\ \E archivo \in ArchivosConfig :
          LET c == PLCController_init(archivo)
          IN  banco' = [op |-> "construir", archivo |-> archivo,
                        levanta |-> c.levanta,
                        plc |-> IF c.levanta THEN banco.plc ELSE c.plc,
                        config |-> IF c.levanta THEN banco.config ELSE c.config,
                        regs |-> banco.regs]
    /\ SistemaQuieto

\* plc.conectar()
ConectarPLC ==
    /\ banco.plc.creado
    /\ \E ok \in BOOLEAN :
          LET c == conectar(banco.plc, ok)
          IN  banco' = [op |-> "conectar", ok |-> ok, previo |-> banco.plc,
                        plc |-> c.plc, ret |-> c.ret, intentos |-> c.intentos,
                        config |-> banco.config, regs |-> banco.regs,
                        regs_previos |-> banco.regs, bitacora |-> << >>]
    /\ SistemaQuieto

\* plc.desconectar()
DesconectarPLC ==
    /\ banco.plc.creado
    /\ \E cierre_falla \in BOOLEAN :
          LET d == desconectar_transporte(banco.plc, cierre_falla)
          IN  banco' = [op |-> "desconectar", previo |-> banco.plc,
                        plc |-> d.plc, close_llamado |-> d.close_llamado,
                        levanta |-> d.levanta,
                        config |-> banco.config, regs |-> banco.regs,
                        regs_previos |-> banco.regs, bitacora |-> << >>]
    /\ SistemaQuieto

\* plc.leer_solicitud_inspeccion()
LeerPLC ==
    /\ banco.plc.creado
    /\ \E falla \in BOOLEAN :
          LET l == leer_solicitud_inspeccion(banco.plc, banco.regs, falla)
          IN  banco' = [op |-> "leer", previo |-> banco.plc, plc |-> l.plc,
                        ret |-> l.ret, fallo |-> l.fallo, io |-> l.io,
                        config |-> banco.config, regs |-> banco.regs,
                        regs_previos |-> banco.regs, bitacora |-> << >>]
    /\ SistemaQuieto

\* plc.escribir_resultados(desviacion_mm, num_filas, exito)
EscribirPLC ==
    /\ banco.plc.creado
    /\ \E desv \in DesvsBanco, filas \in FilasBanco, exito \in BOOLEAN,
          falla \in 0..3 :
          LET w == escribir_resultados(banco.plc, banco.regs, desv, filas,
                                       exito, falla)
          IN  banco' = [op |-> "escribir", desv |-> desv, filas |-> filas,
                        exito |-> exito, falla |-> falla,
                        previo |-> banco.plc, plc |-> w.plc, ret |-> w.ret,
                        config |-> banco.config, regs |-> w.regs,
                        regs_previos |-> banco.regs, bitacora |-> w.bitacora]
    /\ SistemaQuieto

\* plc.verificar_conexion()
VerificarPLC ==
    /\ banco.plc.creado
    /\ \E falla \in BOOLEAN :
          LET v == verificar_conexion(banco.plc, falla)
          IN  banco' = [op |-> "verificar", previo |-> banco.plc, plc |-> v.plc,
                        ret |-> v.ret, fallo |-> v.fallo, io |-> v.io,
                        config |-> banco.config, regs |-> banco.regs,
                        regs_previos |-> banco.regs, bitacora |-> << >>]
    /\ SistemaQuieto

\* plc.obtener_estado_sistema()
EstadoPLC ==
    /\ banco.plc.creado
    /\ \E falla \in 0..2 :
          LET o == obtener_estado_sistema(banco.plc, falla)
          IN  banco' = [op |-> "estado", previo |-> banco.plc, plc |-> o.plc,
                        ret |-> o.ret, fallo |-> o.fallo, io |-> o.io,
                        config |-> banco.config, regs |-> banco.regs,
                        regs_previos |-> banco.regs, bitacora |-> << >>]
    /\ SistemaQuieto

\* the PLC raises a request (99) or returns the trigger register to idle (0)
PLCMueveTrigger ==
    /\ \E d \in {0, VAL_SOLICITUD} :
          /\ banco.regs.D28 # d
          /\ banco' = [op |-> "plc_trigger", plc |-> banco.plc,
                        config |-> banco.config,
                        regs |-> [banco.regs EXCEPT !.D28 = d,
                                     !.valor_de_codigo = FALSE,
                                     !.filas_de_codigo = FALSE]]
    /\ SistemaQuieto

NextPLC ==
    \/ ConstruirPLC
    \/ ConectarPLC
    \/ DesconectarPLC
    \/ LeerPLC
    \/ EscribirPLC
    \/ VerificarPLC
    \/ EstadoPLC
    \/ PLCMueveTrigger

SpecPLC == InitPLC /\ [][NextPLC]_vars

\* ------------------------------------------------------------------
\* VisionProcessor called directly: calibrar_y, the two interpreters, and
\* one cycle body (procesar_frames_dual, then escribir_resultados on a
\* connected controller as in main2.py:440-465)
\* ------------------------------------------------------------------
\* two markers with the same centre (100), one at 151, one non-marker
DetsSupBanco == { [cls |-> CLASE_POSICION, x1 |-> 90, x2 |-> 110],
                  [cls |-> CLASE_VACIO, x1 |-> 95, x2 |-> 105],
                  [cls |-> CLASE_POSICION, x1 |-> 141, x2 |-> 161],
                  [cls |-> "error_apilado", x1 |-> 100, x2 |-> 140] }

\* markers at 100, 150, 200 and 250 and a detection of another class
SupCuatro == << [cls |-> CLASE_POSICION, x1 |-> 90, x2 |-> 110],
                [cls |-> "error_apilado", x1 |-> 100, x2 |-> 140],
                [cls |-> CLASE_VACIO, x1 |-> 140, x2 |-> 160],
                [cls |-> CLASE_POSICION, x1 |-> 190, x2 |-> 210],
                [cls |-> CLASE_VACIO, x1 |-> 240, x2 |-> 260] >>

\* two markers 150 px apart: ideal centres 150, 300, 450, ...
SupEspaciado == << [cls |-> CLASE_POSICION, x1 |-> 140, x2 |-> 160],
                   [cls |-> CLASE_POSICION, x1 |-> 290, x2 |-> 310] >>

\* eight markers centred 10, 43, 76, 109, 141, 174, 207 and 240: the
\* average distance is 230/7, and 7 * (230/7) falls short of 230 in
\* floating point
SupOcho == << [cls |-> CLASE_POSICION, x1 |-> 6, x2 |-> 14],
              [cls |-> CLASE_POSICION, x1 |-> 39, x2 |-> 47],
              [cls |-> CLASE_VACIO, x1 |-> 72, x2 |-> 80],
              [cls |-> CLASE_VACIO, x1 |-> 105, x2 |-> 113],
              [cls |-> CLASE_POSICION, x1 |-> 137, x2 |-> 145],
              [cls |-> CLASE_VACIO, x1 |-> 170, x2 |-> 178],
              [cls |-> CLASE_VACIO, x1 |-> 203, x2 |-> 211],
              [cls |-> CLASE_VACIO, x1 |-> 236, x2 |-> 244] >>

\* every detection list of the top model up to MaxDetecciones, and the
\* frames above
FramesCalBanco ==
    UNION {[1..k -> DetsSupBanco] : k \in 0..MaxDetecciones}
        \cup {SupBueno, SupCuatro, SupEspaciado, SupOcho}

\* one occupied column 35 px left of the first ideal centre
SupDesviado == << [cls |-> CLASE_POSICION, x1 |-> 55, x2 |-> 75] >>
FramesSupBanco == {SupBueno, SupFallo, SupVacio, SupDesviado}

\* the frames the top interpreter is called with directly: the above
\* except SupOcho, and every detection list up to MaxDetecciones
SupX165 == << [cls |-> CLASE_POSICION, x1 |-> 155, x2 |-> 175] >>
SupX200 == << [cls |-> CLASE_POSICION, x1 |-> 190, x2 |-> 210] >>
\* one occupied column 30 px right of the eighth marker of SupOcho
SupX270 == << [cls |-> CLASE_POSICION, x1 |-> 266, x2 |-> 274] >>
FramesSupInferencia ==
    (FramesCalBanco \ {SupOcho}) \cup FramesSupBanco
        \cup {SupX165, SupX200, SupX270}

DetsLatBanco == { [cls |-> CLASE_REFERENCIA, y1 |-> 190, y2 |-> 210],
                  [cls |-> CLASE_BORDE_ENV, y1 |-> 290, y2 |-> 310],
                  [cls |-> CLASE_MITAD_ENV, y1 |-> 240, y2 |-> 260],
                  [cls |-> "error_caido", y1 |-> 300, y2 |-> 400] }

\* landmarks that give a depth correction of 250 hundredths of a mm
LatZ250 == << [cls |-> CLASE_REFERENCIA, y1 |-> 240, y2 |-> 260],
              [cls |-> CLASE_BORDE_ENV, y1 |-> 290, y2 |-> 310],
              [cls |-> CLASE_MITAD_ENV, y1 |-> 250, y2 |-> 270] >>
\* edge and mid markers at the same height
LatColapso == << [cls |-> CLASE_REFERENCIA, y1 |-> 190, y2 |-> 210],
                 [cls |-> CLASE_BORDE_ENV, y1 |-> 290, y2 |-> 310],
                 [cls |-> CLASE_MITAD_ENV, y1 |-> 295, y2 |-> 305] >>
\* an error of -49 px at a scale of 112 px per 100 mm: -49000/112 is
\* -437.5, and the floating-point quotient lies above it
LatEmpate == << [cls |-> CLASE_REFERENCIA, y1 |-> 90, y2 |-> 110],
                [cls |-> CLASE_BORDE_ENV, y1 |-> 81, y2 |-> 101],
                [cls |-> CLASE_MITAD_ENV, y1 |-> 193, y2 |-> 213] >>
FramesLatCiclo ==
    {LatBueno, LatParada, LatVacio, LatZ250, LatColapso, LatEmpate}

\* an edge marker at the top border of the image: int((0 + 1) / 2) = 0
LatBordeCero == << [cls |-> CLASE_REFERENCIA, y1 |-> 190, y2 |-> 210],
                   [cls |-> CLASE_BORDE_ENV, y1 |-> 0, y2 |-> 1],
                   [cls |-> CLASE_MITAD_ENV, y1 |-> 240, y2 |-> 260] >>

\* a scale of 7 px per 100 mm and a negative error: -40000/7 is not whole
LatRedondeo == << [cls |-> CLASE_REFERENCIA, y1 |-> 290, y2 |-> 310],
                  [cls |-> CLASE_BORDE_ENV, y1 |-> 290, y2 |-> 310],
                  [cls |-> CLASE_MITAD_ENV, y1 |-> 283, y2 |-> 303] >>

\* every detection list of the side model up to MaxDetecciones, and the above
FramesLatBanco ==
    UNION {[1..k -> DetsLatBanco] : k \in 0..MaxDetecciones}
        \cup FramesLatCiclo \cup {LatBordeCero, LatRedondeo}

\* arguments of _calcular_correccion_z called directly
YsBanco == {91, 100, 203}
DRealesBanco == {0, D_REAL_MM}

\* The calls above tabulated over their arguments (each entry is the
\* operator's value, computed once); a VisionProcessor outside
\* CalibracionesBanco is computed directly
CalibracionesBanco ==
    UNION {{v, calibrar_y_excepcion(v)} :
              v \in {VPNuevo} \cup {calibrar_y(VPNuevo, f) : f \in FramesCalBanco}}

TablaCalibrarBanco ==
    [v \in CalibracionesBanco, f \in FramesCalBanco |-> calibrar_y(v, f)]

TablaLateralBanco ==
    [l \in FramesLatBanco |-> _ejecutar_inferencia_lateral(l, ALTO_IMAGEN)]

TablaCorreccionZ ==
    [d \in DRealesBanco, yr \in YsBanco, yb \in YsBanco, ym \in YsBanco |->
        _calcular_correccion_z_con(d, yr, yb, ym)]

TablaCicloBanco ==
    [v \in CalibracionesBanco, f \in FramesSupBanco, l \in FramesLatCiclo |->
        procesar_frames_dual(v, f, l, ALTO_IMAGEN)]

PLCConectado == [creado |-> TRUE, is_connected |-> TRUE, mc |-> "Type3E"]
RegsSolicitud == [D28 |-> VAL_SOLICITUD, D29 |-> << 0, 0 >>, D14 |-> 0,
                  valor_de_codigo |-> FALSE, filas_de_codigo |-> FALSE]

\* VisionProcessor(...)
InitVision ==
    /\ InitSistema
    /\ modo_simulacion = TRUE
    /\ config_vision = TRUE
    /\ banco = [op |-> "vision", vp |-> VPNuevo]

\* calibrar_y(frame) with a model that answers
CalibrarY ==
    /\ \E f \in FramesCalBanco :
          banco' = [op |-> "calibrar_y", via |-> "normal",
                    vp |-> IF banco.vp \in CalibracionesBanco
                           THEN TablaCalibrarBanco[banco.vp, f]
                           ELSE calibrar_y(banco.vp, f),
                    previo |-> banco.vp, dets |-> f]
    /\ SistemaQuieto

\* calibrar_y(frame) with a model whose predict raises
CalibrarYExcepcion ==
    /\ banco' = [op |-> "calibrar_y", via |-> "excepcion",
                  vp |-> calibrar_y_excepcion(banco.vp), previo |-> banco.vp,
                  dets |-> << >>]
    /\ SistemaQuieto

\* calibrar_y(frame) on the processor with modelo_sup set to None for the
\* call
CalibrarYSinModelo ==
    /\ \E f \in FramesCalBanco :
       \E v \in {calibrar_y([banco.vp EXCEPT !.modelo_sup = FALSE], f)} :
          banco' = [op |-> "calibrar_y", via |-> "sin_modelo",
                    vp |-> [v EXCEPT !.modelo_sup = TRUE], previo |-> banco.vp,
                    dets |-> f]
    /\ SistemaQuieto

\* _ejecutar_inferencia_lateral(frame_lat)
InferenciaLateral ==
    /\ \E l \in FramesLatBanco :
          banco' = [op |-> "lateral", vp |-> banco.vp, lat |-> l,
                    sal |-> TablaLateralBanco[l]]
    /\ SistemaQuieto

\* _ejecutar_inferencia_superior(frame_sup)
InferenciaSuperior ==
    /\ \E f \in FramesSupInferencia :
          banco' = [op |-> "superior", vp |-> banco.vp, sup |-> f,
                    sal |-> _ejecutar_inferencia_superior(banco.vp, f)]
    /\ SistemaQuieto

\* _calcular_correccion_z(y_referencia, y_borde, y_mitad) on an engine
\* configured with D_REAL_MM = d
CorreccionZ ==
    /\ \E d \in DRealesBanco, yr \in YsBanco, yb \in YsBanco, ym \in YsBanco :
          banco' = [op |-> "correccion_z", vp |-> banco.vp, d_real_mm |-> d,
                    y_referencia |-> yr, y_borde |-> yb, y_mitad |-> ym,
                    sal |-> TablaCorreccionZ[d, yr, yb, ym]]
    /\ SistemaQuieto

\* procesar_frames_dual, then escribir_resultados with its result
CicloDirecto ==
    /\ \E f \in FramesSupBanco, l \in FramesLatCiclo :
          LET r == IF banco.vp \in CalibracionesBanco
                   THEN TablaCicloBanco[banco.vp, f, l]
                   ELSE procesar_frames_dual(banco.vp, f, l, ALTO_IMAGEN)
              w == escribir_resultados(PLCConectado, RegsSolicitud,
                       r.desviacion_y_mm, r.filas, r.plc_success, 0)
          IN  banco' = [op |-> "ciclo", vp |-> banco.vp, sup |-> f, lat |-> l,
                        sal |-> r, envio |-> w.bitacora]
    /\ SistemaQuieto

NextVision ==
    \/ CalibrarY
    \/ CalibrarYExcepcion
    \/ CalibrarYSinModelo
    \/ InferenciaLateral
    \/ InferenciaSuperior
    \/ CorreccionZ
    \/ CicloDirecto

SpecVision == InitVision /\ [][NextVision]_vars

TypeOK ==
    /\ modo_realtime_activo \in BOOLEAN
    /\ modo_simulacion \in BOOLEAN
    /\ config_vision \in BOOLEAN
    /\ modelo_path_sup \in BOOLEAN
    /\ modelo_path_lat \in BOOLEAN
    /\ root \in {"mainloop", "destruida"}
    /\ video_cap_sup \in EstadosVideo
    /\ video_cap_lat \in EstadosVideo \ {"final"}
    /\ vision_processor \in VPsPosibles \cup {VPAusente}
    /\ frame_actual \in Escenas \cup {[sup |-> SupVacio, lat |-> LatVacio]}
    /\ timers \in 0..MaxInicios
    /\ inicios \in 0..MaxInicios
    /\ Len(pila) <= MaxPila
    /\ regs.D28 \in {0, VAL_SOLICITUD, VAL_EXITO, VAL_ERROR}

\* ------------------------------------------------------------------
\* Claims
\* ------------------------------------------------------------------
OrdenContrato == << DEV_RESULTADO_VALOR, DEV_RESULTADO_FILAS, DEV_TRIGGER >>

\* C1: every escribir_resultados call on a connected client, on the success
\* and on the error branch, issues its sub-writes in the order value
\* register (two words), row-count register, trigger register; the trigger
\* write is issued only after both data writes have completed, and a call
\* in which no sub-write raises issues all three.
C1_OrdenDeEscritura ==
    banco.op = "escribir" =>
        /\ Len(banco.bitacora) <= Len(OrdenContrato)
        /\ (banco.previo.is_connected /\ banco.falla = 0) =>
              Len(banco.bitacora) = Len(OrdenContrato)
        /\ \A i \in 1..Len(banco.bitacora) :
              /\ banco.bitacora[i].dev = OrdenContrato[i]
              /\ Len(banco.bitacora[i].values) = IF i = 1 THEN 2 ELSE 1
              /\ banco.bitacora[i].dev = DEV_TRIGGER =>
                    /\ banco.bitacora[i].values[1] \in {VAL_EXITO, VAL_ERROR}
                    /\ \E j \in 1..(i - 1) :
                          /\ banco.bitacora[j].dev = DEV_RESULTADO_VALOR
                          /\ banco.bitacora[j].ok
                    /\ \E j \in 1..(i - 1) :
                          /\ banco.bitacora[j].dev = DEV_RESULTADO_FILAS
                          /\ banco.bitacora[j].ok

\* a complete error-branch write
C1_Testigo ==
    /\ banco.op = "escribir"
    /\ ~banco.exito
    /\ Len(banco.bitacora) = 3
    /\ banco.bitacora[3].ok
    /\ banco.bitacora[3].values = << VAL_ERROR >>

\* C2 (as claimed): in every state of the registers, also after a sub-write
\* failed, a success or error code in D28 comes with the value in D29 and
\* the row count in D14 that the same escribir_resultados call wrote.
C2_CodigoConSusDatos ==
    banco.regs.D28 \in {VAL_EXITO, VAL_ERROR} =>
        banco.regs.valor_de_codigo /\ banco.regs.filas_de_codigo

\* C3: when a sub-write of escribir_resultados fails, no later sub-write is
\* issued (a failed value or row-count write means no trigger write), the
\* client is Disconnected afterwards and the call returns False.
C3_FalloCortaEscritura ==
    banco.op = "escribir" =>
        \A i \in 1..Len(banco.bitacora) :
            ~banco.bitacora[i].ok =>
                /\ i = Len(banco.bitacora)
                /\ i = banco.falla
                /\ \A j \in 1..Len(banco.bitacora) :
                      j # i => banco.bitacora[j].dev # DEV_TRIGGER
                /\ ~banco.plc.is_connected
                /\ ~banco.ret

\* the row-count write (sub-write 2) failed
C3_Testigo ==
    /\ banco.op = "escribir"
    /\ Len(banco.bitacora) = 2
    /\ banco.bitacora[1].ok
    /\ ~banco.bitacora[2].ok
    /\ banco.bitacora[2].dev = DEV_RESULTADO_FILAS

\* the PLCController methods that talk to the controller
OperacionesDeTransporte == {"leer", "escribir", "verificar", "estado"}

\* a transport call raised in the direct call b
FalloDeTransporte(b) ==
    \/ b.op \in {"leer", "verificar", "estado"} /\ b.fallo
    \/ b.op = "escribir" /\ \E i \in 1..Len(b.bitacora) : ~b.bitacora[i].ok

\* transport reads and writes the direct call b issued
TransporteUsado(b) == IF b.op = "escribir" THEN Len(b.bitacora) ELSE b.io

\* C4 (as claimed): a PLCController call in which a transport call raised
\* leaves the client Disconnected, and the call made next, unless it is
\* conectar(), issues no transport read or write.
C4_FalloEsTerminal ==
    [][ /\ FalloDeTransporte(banco') => ~banco'.plc.is_connected
        /\ (FalloDeTransporte(banco) /\ banco'.op \in OperacionesDeTransporte)
              => TransporteUsado(banco') = 0 ]_vars

\* the loop is running outside simulation mode without a connected
\* client: its next cycle is scheduled and no handler is suspended
SinConexionEnMarcha ==
    /\ root = "mainloop"
    /\ modo_realtime_activo
    /\ timers > 0
    /\ pila = << >>
    /\ ~modo_simulacion
    /\ ~(controlador_plc.creado /\ controlador_plc.is_connected)

\* C5 (as claimed): the system does not stay without a connection forever
\* with the loop running in non-simulation mode and no connect attempt
\* being made.
C5_ReintentaConexion ==
    SinConexionEnMarcha ~> (~SinConexionEnMarcha \/ evento.op = "conectar_plc")

\* C7 (as claimed): at most one cycle is in progress and at most one loop
\* chain exists, counting cycles suspended in root.update() and pending
\* root.after callbacks.
C7_UnSoloCiclo == timers + EnPila("loop") <= 1

\* all sub-writes issued, or the first failure reached, or none begun
EscrituraTerminada(b) ==
    \/ b = << >>
    \/ ~b[Len(b)].ok
    \/ Len(b) = Len(OrdenContrato) /\ \A i \in 1..Len(b) : b[i].ok

\* the segments that enter _loop_principal
EntradasDeLoop == {"ciclo_inicio", "loop_detenido", "fuentes_perdidas"}

C10_ParadaLateral ==
    (banco.op = "ciclo" /\ banco.sal.resp_lat_code = CODIGO_PARADA) =>
        /\ banco.sal.codigo_respuesta_plc = CODIGO_PARADA
        /\ ~banco.sal.plc_success
        /\ banco.sal.filas = 0
        /\ banco.sal.desviacion_y_mm = 0
        /\ ~banco.sal.superior_invocada
        /\ banco.envio =
             << [dev |-> DEV_RESULTADO_VALOR, values |-> << 0, 0 >>, ok |-> TRUE],
                [dev |-> DEV_RESULTADO_FILAS, values |-> << 0 >>, ok |-> TRUE],
                [dev |-> DEV_TRIGGER, values |-> << VAL_ERROR >>, ok |-> TRUE] >>

\* a stop cycle on a calibrated processor with occupied columns in view
C10_Testigo ==
    /\ banco.op = "ciclo"
    /\ banco.sal.resp_lat_code = CODIGO_PARADA
    /\ banco.vp.calibrado_y
    /\ banco.sup = SupBueno
    /\ Len(banco.envio) = 3

EnInt32(e) == Ancho(INT32_MIN).q <= e.q /\ e.q <= Ancho(INT32_MAX).q

\* C19: for every integer outside [-2147483648, 2147483647] the two words
\* encode the nearest boundary value, not the argument modulo 2^32.
C19_SaturaEnLimite ==
    (banco.op = "codec" /\ ~EnInt32(banco.e)) =>
        banco.words = IF banco.e.q > 0
                      THEN << 65535, 32767 >>   \* 0x7FFFFFFF
                      ELSE << 0, 32768 >>       \* 0x80000000

\* 2^32 + 1250 and -(2^32) - 1 were encoded
C19_Testigo ==
    /\ banco.op = "codec"
    /\ banco.e \in {[q |-> 65536, r |-> 1250], [q |-> -65537, r |-> 65535]}

\* low + 65536 * high read as a two's-complement 32-bit value
Reensamblar(w) ==
    [q |-> IF w[2] >= 32768 THEN w[2] - DOS_16 ELSE w[2], r |-> w[1]]

\* C20: for every v in [-2147483648, 2147483647] the encoder gives two
\* words in 0..65535, low word first, and low + 65536*high read as a
\* two's-complement 32-bit value is v again; -1250 gives [0xFB1E, 0xFFFF].
C20_IdaYVuelta ==
    (banco.op = "codec" /\ EnInt32(banco.e)) =>
        /\ Len(banco.words) = 2
        /\ \A i \in 1..2 : banco.words[i] \in 0..(DOS_16 - 1)
        /\ Reensamblar(banco.words) = banco.e
        /\ Reensamblar(banco.words).q * DOS_16 + banco.words[1]
              = banco.e.q * DOS_16 + banco.e.r
        /\ banco.e = Ancho(-1250) => banco.words = << 64286, 65535 >>

\* -1250 was encoded
C20_Testigo ==
    /\ banco.op = "codec"
    /\ banco.e = Ancho(-1250)
    /\ banco.words[2] = 65535

\* what the top interpreter answers for the bench's calibration and frame
SuperiorDe(b) == _ejecutar_inferencia_superior(b.vp, b.sup)
\* what the side interpreter answers for the bench's frame
LateralDe(b) == _ejecutar_inferencia_lateral(b.lat, ALTO_IMAGEN)

\* C11: when the side camera signals no stop and the top camera reports a
\* quality fault, the outcome is QUALITY_FAULT with success true, and the
\* controller is sent the success code with the top camera's row count and
\* the depth correction, not the error code and not zeroed data.
C11_FalloQCEsExito ==
    (/\ banco.op = "ciclo"
     /\ banco.sal.resp_lat_code # CODIGO_PARADA
     /\ SuperiorDe(banco).code = CODIGO_FALLO_QC)
    => /\ banco.sal.codigo_respuesta_plc = CODIGO_FALLO_QC
       /\ banco.sal.plc_success
       /\ banco.sal.filas = SuperiorDe(banco).conteo
       /\ banco.envio =
            << [dev |-> DEV_RESULTADO_VALOR,
                values |-> _int32_to_words(LateralDe(banco).z), ok |-> TRUE],
               [dev |-> DEV_RESULTADO_FILAS,
                values |-> << SuperiorDe(banco).conteo >>, ok |-> TRUE],
               [dev |-> DEV_TRIGGER, values |-> << VAL_EXITO >>, ok |-> TRUE] >>

\* a quality fault with one row and a depth correction was sent as success
C11_Testigo ==
    /\ banco.op = "ciclo"
    /\ banco.sal.codigo_respuesta_plc = CODIGO_FALLO_QC
    /\ banco.sal.filas > 0
    /\ banco.sal.correccion_z_cmm # 0
    /\ banco.envio[3].values = << VAL_EXITO >>

\* C12: the deviation of a cycle, and the value written to D29, is the
\* side camera's depth correction (hundredths of a mm, i.e. z/100 mm); it
\* is the same for every top frame, whatever the top lateral correction.
C12_DesviacionEsZ ==
    banco.op = "ciclo" =>
        /\ banco.sal.desviacion_y_mm = LateralDe(banco).z
        /\ banco.envio[1].dev = DEV_RESULTADO_VALOR
        /\ banco.envio[1].values = _int32_to_words(LateralDe(banco).z)
        /\ \A f \in FramesSupBanco :
              procesar_frames_dual(banco.vp, f, banco.lat, ALTO_IMAGEN).desviacion_y_mm
                  = banco.sal.desviacion_y_mm

\* a cycle with a top lateral correction and a depth correction
C12_Testigo ==
    /\ banco.op = "ciclo"
    /\ banco.sal.desviacion_y_px # 0
    /\ banco.sal.desviacion_y_mm # 0

\* C13: the row count of a cycle, and the value written to D14, is the top
\* camera's row count, 0 when a stop skipped the top camera; calibrated,
\* with 3 occupied and 2 empty columns and a depth correction of 250, the
\* outcome is OK with 3 rows and 2.50 mm.
C13_FilasDelSuperior ==
    banco.op = "ciclo" =>
        /\ banco.sal.filas = IF banco.sal.resp_lat_code = CODIGO_PARADA
                              THEN 0 ELSE SuperiorDe(banco).conteo
        /\ banco.envio[2].dev = DEV_RESULTADO_FILAS
        /\ banco.envio[2].values = << banco.sal.filas >>
        /\ (/\ banco.vp = calibrar_y(VPNuevo, SupBueno)
            /\ banco.sup = SupBueno
            /\ banco.lat = LatZ250)
           => /\ banco.sal.codigo_respuesta_plc = CODIGO_OK
              /\ banco.sal.filas = 3
              /\ banco.sal.desviacion_y_mm = 250
              /\ banco.envio[1].values = << 250, 0 >>
              /\ banco.envio[3].values = << VAL_EXITO >>

\* the end-to-end case of the claim ran
C13_Testigo ==
    /\ banco.op = "ciclo"
    /\ banco.vp = calibrar_y(VPNuevo, SupBueno)
    /\ banco.sup = SupBueno
    /\ banco.lat = LatZ250

\* C14: a side frame with a detection of an anomaly class gives stop with
\* depth correction 0, whatever landmarks it has and wherever the anomaly
\* stands in the detection list.
C14_ParadaPrioritaria ==
    (/\ banco.op = "lateral"
     /\ \E i \in 1..Len(banco.lat) : banco.lat[i].cls \in CLASES_ANOMALIA_LATERAL)
    => /\ banco.sal.code = CODIGO_PARADA
       /\ banco.sal.z = 0

\* an anomaly after three valid landmarks
C14_Testigo ==
    /\ banco.op = "lateral"
    /\ banco.lat = LatParada
    /\ banco.sal.code = CODIGO_PARADA

\* C15: without a valid calibration the top interpreter answers
\* QUALITY_FAULT with 0 rows and 0 correction, and a cycle without stop
\* ends with outcome QUALITY_FAULT.
C15_SinCalibracionEsFalloQC ==
    /\ (banco.op = "superior" /\ ~banco.vp.calibrado_y) =>
          banco.sal = [code |-> CODIGO_FALLO_QC, conteo |-> 0, correccion_y |-> 0]
    /\ (/\ banco.op = "ciclo"
        /\ ~banco.vp.calibrado_y
        /\ banco.sal.resp_lat_code # CODIGO_PARADA)
       => /\ banco.sal.codigo_respuesta_plc = CODIGO_FALLO_QC
          /\ banco.sal.filas = 0
          /\ banco.sal.desviacion_y_px = 0

\* the top interpreter ran on an off-column product after a failed
\* recalibration that left the old centres stored
C15_Testigo ==
    /\ banco.op = "superior"
    /\ ~banco.vp.calibrado_y
    /\ banco.vp.X_CENTROS_IDEALES # << >>
    /\ banco.sup = SupDesviado

MapaCompleto(vp) == DOMAIN vp.X_CENTROS_IDEALES = 1..TOTAL_POSICIONES

\* C16 (as claimed): after any calibrar_y call the calibration is either
\* a complete N-entry mapping marked valid or exactly the state before the
\* call, and the validity flag agrees with the stored mapping.
C16_TodoONada ==
    banco.op = "calibrar_y" =>
        /\ \/ banco.vp.calibrado_y /\ MapaCompleto(banco.vp)
           \/ banco.vp = banco.previo
        /\ banco.vp.calibrado_y <=> banco.vp.X_CENTROS_IDEALES # << >>

\* C16 (amended): after any calibrar_y call, calibrado_y is True only with
\* a complete N-entry mapping; a call with fewer than 2 markers leaves the
\* engine uncalibrated with an empty mapping, a call whose inference raises
\* leaves it uncalibrated with the stored mapping untouched, and a call
\* without a model leaves the state as it was.
C16_ValidoSoloCompleto ==
    banco.op = "calibrar_y" =>
        /\ banco.vp.calibrado_y => MapaCompleto(banco.vp)
        /\ banco.via = "normal" =>
              \/ /\ banco.vp.calibrado_y
                 /\ Len(CentrosDetectados(banco.dets)) >= 2
              \/ /\ ~banco.vp.calibrado_y
                 /\ banco.vp.X_CENTROS_IDEALES = << >>
                 /\ Len(CentrosDetectados(banco.dets)) < 2
        /\ banco.via = "excepcion" =>
              /\ ~banco.vp.calibrado_y
              /\ banco.vp.X_CENTROS_IDEALES = banco.previo.X_CENTROS_IDEALES
        /\ banco.via = "sin_modelo" => banco.vp = banco.previo

\* a recalibration without markers wiped a valid calibration
C16_Testigo ==
    /\ banco.op = "calibrar_y"
    /\ banco.via = "normal"
    /\ banco.previo.calibrado_y
    /\ MapaCompleto(banco.previo)
    /\ ~banco.vp.calibrado_y
    /\ banco.vp.X_CENTROS_IDEALES = << >>

\* C17 (as claimed): a valid calibration has exactly N centres keyed 1..N,
\* increasing with the column index, and consecutive centres are spaced by
\* the average distance between the detected markers (to the pixel: the
\* centres are integers).
C17_CentrosCrecientes ==
    (banco.op = "calibrar_y" /\ banco.via = "normal" /\ banco.vp.calibrado_y) =>
        LET X == banco.vp.X_CENTROS_IDEALES
            cs == CentrosDetectados(banco.dets)
            m == Len(cs) - 1
            tramo == cs[Len(cs)] - cs[1]
        IN  /\ MapaCompleto(banco.vp)
            /\ \A i \in 1..(TOTAL_POSICIONES - 1) :
                  /\ X[i] < X[i + 1]
                  /\ Abs((X[i + 1] - X[i]) * m - tramo) < m

\* C18: calibrar_y on a frame with fewer than 2 markers of the two marker
\* classes produces no calibration: afterwards calibrado_y is False and
\* there are no ideal centres.
C18_MarcadoresInsuficientes ==
    (/\ banco.op = "calibrar_y"
     /\ banco.via = "normal"
     /\ Len(CentrosDetectados(banco.dets)) < 2)
    => /\ ~banco.vp.calibrado_y
       /\ banco.vp.X_CENTROS_IDEALES = << >>

\* one marker among other detections, on a calibrated engine
C18_Testigo ==
    /\ banco.op = "calibrar_y"
    /\ banco.via = "normal"
    /\ Len(CentrosDetectados(banco.dets)) = 1
    /\ Len(banco.dets) >= 2
    /\ banco.previo.calibrado_y

\* ------------------------------------------------------------------
\* Claims on the codec's diagnostics and on PLCController's methods
\* ------------------------------------------------------------------
\* the int32 limit an out-of-range argument is clamped to
LimiteDe(e) == IF e.q > Ancho(INT32_MAX).q THEN Ancho(INT32_MAX)
               ELSE Ancho(INT32_MIN)

\* C21: when the encoder clamps an out-of-range value, the caller gets a
\* signal of it: a diagnostic is emitted, or the returned value differs
\* from the one returned for the limit itself.
C21_SaturacionObservable ==
    (banco.op = "codec" /\ ~EnInt32(banco.e))
    => \/ banco.avisos # << >>
       \/ banco.words # _int32_to_words_ancho(LimiteDe(banco.e))

\* what a caller of escribir_resultados has after the call: the returned
\* value and the client's connection flag (the printed line carries the
\* transport's exception text only)
LoQueVeElLlamador(w) == [ret |-> w.ret, is_connected |-> w.plc.is_connected]

\* C22: when a sub-write of escribir_resultados fails, what the caller gets
\* identifies the failed step: the same call failing at another step gives
\* the caller something different.
C22_ErrorIdentificaPaso ==
    (banco.op = "escribir" /\ banco.previo.is_connected /\ banco.falla # 0)
    => \A f \in (1..3) \ {banco.falla} :
          LoQueVeElLlamador(
              escribir_resultados(banco.previo, banco.regs_previos, banco.desv,
                                  banco.filas, banco.exito, f))
          # LoQueVeElLlamador([ret |-> banco.ret, plc |-> banco.plc])

\* C23: desconectar(), in any client state, returns normally, leaves the
\* client disconnected with the transport handle closed and cleared, and a
\* second call changes nothing.
C23_DesconectarLibera ==
    banco.op = "desconectar"
    => /\ ~banco.levanta
       /\ ~banco.plc.is_connected
       /\ banco.plc.mc = "None"
       /\ (banco.previo.mc # "None" => banco.close_llamado)
       /\ desconectar(banco.plc) = banco.plc

\* C24: conectar() issues one connection attempt; when it fails the call
\* returns False and the client is disconnected, also when it was
\* connected before the call.
C24_ConectarUnIntento ==
    banco.op = "conectar"
    => /\ banco.intentos = 1
       /\ banco.ret = banco.ok
       /\ (~banco.ok => ~banco.ret /\ ~banco.plc.is_connected)
       /\ (banco.ok => banco.plc.is_connected)

\* a failed attempt on a connected client
C24_Testigo ==
    /\ banco.op = "conectar"
    /\ banco.previo.is_connected
    /\ ~banco.ok
    /\ ~banco.plc.is_connected

\* C25: when the trigger read fails, leer_solicitud_inspeccion disconnects
\* the client and returns something a successful read of a non-request
\* value does not return.
C25_ErrorDeLecturaVisible ==
    (banco.op = "leer" /\ banco.fallo)
    => /\ ~banco.plc.is_connected
       /\ \A d \in {0, VAL_EXITO, VAL_ERROR} :
             leer_solicitud_inspeccion(banco.previo,
                 [banco.regs_previos EXCEPT !.D28 = d], FALSE).ret # banco.ret

\* the calls of PLCController that are not escribir_resultados
OpsSinEscritura == {"conectar", "desconectar", "leer", "verificar", "estado"}

\* C26: the trigger register is written only by the last sub-write of
\* escribir_resultados, with the success or the error code, and the other
\* methods write no register.
C26_TriggerSoloAlFinal ==
    /\ banco.op \in OpsSinEscritura
          => banco.bitacora = << >> /\ banco.regs = banco.regs_previos
    /\ banco.op = "escribir"
          => /\ \A i \in 1..Len(banco.bitacora) :
                   banco.bitacora[i].dev = DEV_TRIGGER
                   => /\ i = 3
                      /\ i = Len(banco.bitacora)
                      /\ banco.bitacora[i].values \in
                             {<< VAL_EXITO >>, << VAL_ERROR >>}
             /\ (banco.regs.D28 # banco.regs_previos.D28
                   => /\ Len(banco.bitacora) = 3
                      /\ banco.bitacora[3].ok
                      /\ banco.regs.D28 = (IF banco.exito THEN VAL_EXITO
                                            ELSE VAL_ERROR))

\* a failure report that replaced a pending request by the error code
C26_Testigo ==
    /\ banco.op = "escribir"
    /\ ~banco.exito
    /\ banco.regs_previos.D28 = VAL_SOLICITUD
    /\ banco.regs.D28 = VAL_ERROR

\* C27: the value written to the row-count register is never negative; a
\* negative row count is written as 0.
C27_FilasNoNegativas ==
    banco.op = "escribir"
    => /\ \A i \in 1..Len(banco.bitacora) :
             banco.bitacora[i].dev = DEV_RESULTADO_FILAS
             => banco.bitacora[i].values =
                   << IF banco.exito /\ banco.filas > 0 THEN banco.filas ELSE 0 >>
       /\ banco.regs.D14 >= 0

\* a success report with a negative row count, written completely
C27_Testigo ==
    /\ banco.op = "escribir"
    /\ banco.exito
    /\ banco.filas < 0
    /\ banco.ret
    /\ banco.regs.D14 = 0
    /\ banco.regs_previos.D14 # 0

\* C28: with the configuration file missing, PLCController does not come
\* up on substituted defaults: the constructor fails.
C28_SinConfigNoArranca ==
    (banco.op = "construir" /\ banco.archivo = "ausente")
    => /\ banco.levanta
       /\ banco.config # _configuracion_por_defecto

\* ------------------------------------------------------------------
\* Claims on the top interpreter's position map
\* ------------------------------------------------------------------
\* the pixel X of the markers of one class in a detection list
CentrosDeClase(dets, cls) ==
    {Centro(dets[i].x1, dets[i].x2) : i \in {j \in 1..Len(dets) : dets[j].cls = cls}}

\* C29: when an occupied marker and an empty marker have the same pixel X,
\* the top interpreter records the position as occupied and counts it,
\* in whichever order the two detections come.
C29_OcupadoGana ==
    (banco.op = "superior" /\ banco.vp.calibrado_y)
    => /\ \A x \in CentrosDeClase(banco.sup, CLASE_POSICION)
                    \cap CentrosDeClase(banco.sup, CLASE_VACIO) :
             BuscarSuperior(banco.sup, << >>, FALSE).pos[x] = "PRODUCTO"
       /\ banco.sal.conteo = Cardinality(CentrosDeClase(banco.sup, CLASE_POSICION))

\* every ordering of a detection list
Permutaciones(s) ==
    {[i \in 1..Len(s) |-> s[f[i]]] :
        f \in {g \in [1..Len(s) -> 1..Len(s)] :
                  \A a, b \in 1..Len(s) : a # b => g[a] # g[b]}}

\* C30: the top interpreter returns the same code, row count and lateral
\* correction for every ordering of the same detections.
C30_OrdenIndiferente ==
    banco.op = "superior"
    => \A p \in Permutaciones(banco.sup) :
          _ejecutar_inferencia_superior(banco.vp, p) = banco.sal

\* calibrated, an occupied marker first and an empty marker at the same
\* pixel X after it, and another occupied column
C30_Testigo ==
    /\ banco.op = "superior"
    /\ banco.vp.calibrado_y
    /\ Len(banco.sup) = 3
    /\ banco.sup[1].cls = CLASE_POSICION
    /\ banco.sup[2].cls = CLASE_VACIO
    /\ Centro(banco.sup[1].x1, banco.sup[1].x2)
          = Centro(banco.sup[2].x1, banco.sup[2].x2)
    /\ banco.sal.conteo = 1

\* ------------------------------------------------------------------
\* Claims on the top interpreter's counting and geometry
\* ------------------------------------------------------------------
\* the pixel X positions recorded as occupied by a detection list
Ocupadas(dets) ==
    LET pos == BuscarSuperior(dets, << >>, FALSE).pos
    IN  {x \in DOMAIN pos : pos[x] = "PRODUCTO"}

\* the distance from x to its nearest ideal centre
DistanciaMinima(centros, x) ==
    CHOOSE d \in {Abs(x - centros[k]) : k \in DOMAIN centros} :
        \A k \in DOMAIN centros : d <= Abs(x - centros[k])

Limitar(v) ==
    IF v > CORRECCION_Y_FIJA_PX THEN CORRECCION_Y_FIJA_PX
    ELSE IF v < -CORRECCION_Y_FIJA_PX THEN -CORRECCION_Y_FIJA_PX
    ELSE v

\* the lateral corrections an active column at x may get
CorreccionesAdmitidas(centros, x) ==
    IF DistanciaMinima(centros, x) <= TOLERANCIA_COLUMNA_PX THEN {0}
    ELSE {Limitar(x - centros[k]) :
             k \in {j \in DOMAIN centros :
                       Abs(x - centros[j]) = DistanciaMinima(centros, x)}}

\* the lowest occupied position
PrimeraOcupada(dets) ==
    CHOOSE x \in Ocupadas(dets) : \A o \in Ocupadas(dets) : x <= o

\* C31: the row count of the top interpreter is the number of distinct
\* pixel X positions recorded as occupied, and the active work column is
\* the occupied position with the lowest X: the lateral correction is the
\* one of that position. Empty positions are neither counted nor chosen.
C31_CuentaYColumnaActiva ==
    (banco.op = "superior" /\ banco.vp.calibrado_y)
    => /\ banco.sal.conteo = Cardinality(Ocupadas(banco.sup))
       /\ Ocupadas(banco.sup) = {} => banco.sal.correccion_y = 0
       /\ Ocupadas(banco.sup) # {}
             => banco.sal.correccion_y
                   \in CorreccionesAdmitidas(banco.vp.X_CENTROS_IDEALES,
                                             PrimeraOcupada(banco.sup))

\* an empty position at a lower X than the only occupied one, which is out
\* of tolerance while the empty one is aligned
C31_Testigo ==
    /\ banco.op = "superior"
    /\ banco.vp.calibrado_y
    /\ banco.sal.conteo = 1
    /\ \E i \in 1..Len(banco.sup) :
          /\ banco.sup[i].cls = CLASE_VACIO
          /\ Centro(banco.sup[i].x1, banco.sup[i].x2) < PrimeraOcupada(banco.sup)
          /\ DistanciaMinima(banco.vp.X_CENTROS_IDEALES,
                             Centro(banco.sup[i].x1, banco.sup[i].x2)) = 0
    /\ banco.sal.correccion_y # 0

\* C32: the lateral correction is 0, with no added fault, when there is no
\* active column or when it lies within TOLERANCIA_COLUMNA_PX of its
\* nearest ideal centre (165 against 150); beyond the tolerance it is
\* (x - ideal) limited to +-CORRECCION_Y_FIJA_PX (200 against 150 gives 50)
\* with a quality fault. So it is always within the limit, and a non-zero
\* correction always comes with a fault.
C32_CorreccionLateral ==
    (banco.op = "superior" /\ banco.vp.calibrado_y)
    => LET ocup == Ocupadas(banco.sup)
           hay_fallo == \E i \in 1..Len(banco.sup) :
                           banco.sup[i].cls \in CLASES_FALLO_SUPERIOR
           cerca == DistanciaMinima(banco.vp.X_CENTROS_IDEALES,
                                    PrimeraOcupada(banco.sup))
                       <= TOLERANCIA_COLUMNA_PX
       IN  /\ (ocup = {} \/ cerca)
                 => /\ banco.sal.correccion_y = 0
                    /\ banco.sal.code = CODIGO_FALLO_QC <=> hay_fallo
           /\ (ocup # {} /\ ~cerca)
                 => /\ banco.sal.correccion_y
                          \in CorreccionesAdmitidas(banco.vp.X_CENTROS_IDEALES,
                                                    PrimeraOcupada(banco.sup))
                    /\ banco.sal.code = CODIGO_FALLO_QC
           /\ banco.sal.correccion_y >= -CORRECCION_Y_FIJA_PX
           /\ banco.sal.correccion_y <= CORRECCION_Y_FIJA_PX
           /\ banco.sal.correccion_y # 0 => banco.sal.code = CODIGO_FALLO_QC
           /\ (banco.vp.X_CENTROS_IDEALES[1] = 150 /\ banco.sup = SupX165)
                 => banco.sal = [code |-> CODIGO_OK, conteo |-> 1,
                                 correccion_y |-> 0]
           /\ (banco.vp.X_CENTROS_IDEALES[1] = 150 /\ banco.sup = SupX200)
                 => banco.sal = [code |-> CODIGO_FALLO_QC, conteo |-> 1,
                                 correccion_y |-> CORRECCION_Y_FIJA_PX]

\* the active column at 200 against the ideal centre 150, answered with a
\* correction at the limit
C32_Testigo ==
    /\ banco.op = "superior"
    /\ banco.vp.calibrado_y
    /\ banco.vp.X_CENTROS_IDEALES[1] = 150
    /\ banco.vp.X_CENTROS_IDEALES[2] = 300
    /\ banco.sup = SupX200
    /\ banco.sal.correccion_y = CORRECCION_Y_FIJA_PX
    /\ banco.sal.code = CODIGO_FALLO_QC

\* C33: in one run of the top interpreter a fault never clears: if any
\* detection is of a class in CLASES_FALLO_SUPERIOR the code is
\* CODIGO_FALLO_QC, whatever the other detections and the geometry are.
C33_FalloNoSeBorra ==
    (/\ banco.op = "superior"
     /\ \E i \in 1..Len(banco.sup) :
           banco.sup[i].cls \in CLASES_FALLO_SUPERIOR)
    => banco.sal.code = CODIGO_FALLO_QC

\* a fault detection first, then an aligned occupied column
C33_Testigo ==
    /\ banco.op = "superior"
    /\ banco.vp.calibrado_y
    /\ Len(banco.sup) >= 2
    /\ banco.sup[1].cls \in CLASES_FALLO_SUPERIOR
    /\ banco.sup[Len(banco.sup)].cls = CLASE_POSICION
    /\ banco.sal.conteo = 1
    /\ banco.sal.correccion_y = 0
    /\ banco.sal.code = CODIGO_FALLO_QC

\* the centres of the marker detections of a frame
CentrosDeMarcadores(dets) ==
    {Centro(dets[i].x1, dets[i].x2) :
        i \in {j \in 1..Len(dets) : dets[j].cls \in {CLASE_POSICION, CLASE_VACIO}}}

NumMarcadores(dets) ==
    Cardinality({j \in 1..Len(dets) :
                    dets[j].cls \in {CLASE_POSICION, CLASE_VACIO}})

\* C34: with at least 2 marker detections calibrar_y ignores the other
\* classes and generates TOTAL_POSICIONES centres that start at the lowest
\* marker centre and step by the average of the consecutive sorted deltas,
\* (last - first) / (n - 1), each centre being first + i * average cut to
\* a whole pixel; markers at 100, 150, 200 and 250 give 100, 150, ..., 450.
C34_CentrosGenerados ==
    (/\ banco.op = "calibrar_y" /\ banco.via = "normal"
     /\ NumMarcadores(banco.dets) >= 2)
    => LET cs == CentrosDeMarcadores(banco.dets)
           n == NumMarcadores(banco.dets)
           primero == CHOOSE c \in cs : \A o \in cs : c <= o
           ultimo == CHOOSE c \in cs : \A o \in cs : c >= o
           X == banco.vp.X_CENTROS_IDEALES
       IN  /\ banco.vp.calibrado_y
           /\ DOMAIN X = 1..TOTAL_POSICIONES
           /\ X[1] = primero
           /\ \A i \in 1..TOTAL_POSICIONES :
                 /\ (n - 1) * X[i] <= (n - 1) * primero + (i - 1) * (ultimo - primero)
                 /\ (n - 1) * primero + (i - 1) * (ultimo - primero)
                       < (n - 1) * X[i] + (n - 1)
           /\ banco.dets = SupCuatro
                 => X = [i \in 1..TOTAL_POSICIONES |-> 100 + 50 * (i - 1)]

\* the four markers of the example and a detection of another class
\* ------------------------------------------------------------------
\* Claims on the side interpreter's depth correction
\* ------------------------------------------------------------------
\* the vertical centre of the first detection of a class, or NoneVal
RECURSIVE PrimerY(_, _)
PrimerY(dets, cls) ==
    IF dets = << >> THEN NoneVal
    ELSE IF Head(dets).cls = cls THEN Centro(Head(dets).y1, Head(dets).y2)
    ELSE PrimerY(Tail(dets), cls)

HayAnomalia(dets) ==
    \E i \in 1..Len(dets) : dets[i].cls \in CLASES_ANOMALIA_LATERAL

\* the reference used by the side interpreter: detected, or the midpoint
ReferenciaUsada(dets) ==
    IF PrimerY(dets, CLASE_REFERENCIA) = NoneVal THEN ALTO_IMAGEN \div 2
    ELSE PrimerY(dets, CLASE_REFERENCIA)

\* C35: with no anomaly and all landmarks available the side interpreter
\* returns round(((edge - reference) - OFFSET_CERO_PX)
\*                / (|edge - mid| / D_REAL_MM) * 10), i.e. the whole number
\* within one half of (error * D_REAL_MM * 10) / |edge - mid|; reference
\* 200, edge 300 and mid 250 give 1200, which the cycle hands to the
\* controller as the value words of 1200 (12.00 mm).
C35_CorreccionZ ==
    /\ (/\ banco.op = "lateral"
         /\ ~HayAnomalia(banco.lat)
         /\ PrimerY(banco.lat, CLASE_BORDE_ENV) \notin {NoneVal, 0}
         /\ PrimerY(banco.lat, CLASE_MITAD_ENV) \notin {NoneVal, 0}
         /\ ReferenciaUsada(banco.lat) # 0
         /\ PrimerY(banco.lat, CLASE_BORDE_ENV)
               # PrimerY(banco.lat, CLASE_MITAD_ENV))
          => LET borde == PrimerY(banco.lat, CLASE_BORDE_ENV)
                 delta == Abs(borde - PrimerY(banco.lat, CLASE_MITAD_ENV))
                 err == (borde - ReferenciaUsada(banco.lat)) - OFFSET_CERO_PX
             IN  /\ banco.sal.code = CODIGO_OK
                 /\ 2 * Abs(banco.sal.z * delta - err * D_REAL_MM * 10) <= delta
    /\ (banco.op = "lateral" /\ banco.lat = LatBueno) => banco.sal.z = 1200
    /\ (banco.op = "lateral" /\ banco.lat = LatEmpate) => banco.sal.z = -437
    /\ (banco.op = "ciclo" /\ banco.lat = LatBueno)
          => /\ banco.sal.correccion_z_cmm = 1200
             /\ banco.sal.desviacion_y_mm = 1200
             /\ banco.envio[1].dev = DEV_RESULTADO_VALOR
             /\ banco.envio[1].values = << 1200, 0 >>

\* the example of the claim through a whole cycle
C35_Testigo ==
    /\ banco.op = "ciclo"
    /\ banco.lat = LatBueno
    /\ banco.sal.plc_success
    /\ banco.sal.correccion_z_cmm = 1200
    /\ Len(banco.envio) = 3

\* C36: a landmark of the side interpreter is absent only when no
\* detection of its class exists. A missing reference is replaced by the
\* vertical midpoint of the image; whenever the edge and the mid marker are
\* both detected, at any pixel Y, the depth formula or the scale rule is
\* applied; the zero result with the missing-landmarks diagnostic is
\* returned exactly when the edge or the mid marker is absent, and never
\* as a stop.
C36_AusenteSoloSiNoDetectado ==
    (banco.op = "lateral" /\ ~HayAnomalia(banco.lat))
    => LET detectados == /\ PrimerY(banco.lat, CLASE_BORDE_ENV) # NoneVal
                         /\ PrimerY(banco.lat, CLASE_MITAD_ENV) # NoneVal
       IN  /\ banco.sal.code # CODIGO_PARADA
           /\ banco.sal.fallback
                 <=> PrimerY(banco.lat, CLASE_REFERENCIA) = NoneVal
           /\ detectados
                 => banco.sal
                       = [code |-> CODIGO_OK,
                          z |-> _calcular_correccion_z(
                                    ReferenciaUsada(banco.lat),
                                    PrimerY(banco.lat, CLASE_BORDE_ENV),
                                    PrimerY(banco.lat, CLASE_MITAD_ENV)).z,
                          log |-> _calcular_correccion_z(
                                    ReferenciaUsada(banco.lat),
                                    PrimerY(banco.lat, CLASE_BORDE_ENV),
                                    PrimerY(banco.lat, CLASE_MITAD_ENV)).log,
                          fallback |-> banco.sal.fallback]
           /\ ~detectados => (banco.sal.z = 0 /\ banco.sal.log = "faltan")

\* C37: when the edge and the mid marker have the same Y, or D_REAL_MM is
\* configured as zero, the depth correction is 0 with the scale diagnostic
\* and no stop is signalled: the cycle's code stays OK or quality fault and
\* plc_success stays true.
C37_EscalaColapsada ==
    /\ (/\ banco.op = "correccion_z"
         /\ (banco.d_real_mm = 0 \/ banco.y_borde = banco.y_mitad))
          => banco.sal = [z |-> 0, log |-> "escala"]
    /\ (/\ banco.op = "lateral"
         /\ ~HayAnomalia(banco.lat)
         /\ PrimerY(banco.lat, CLASE_BORDE_ENV) \notin {NoneVal, 0}
         /\ PrimerY(banco.lat, CLASE_BORDE_ENV)
               = PrimerY(banco.lat, CLASE_MITAD_ENV))
          => /\ banco.sal.z = 0
             /\ banco.sal.log = "escala"
             /\ banco.sal.code = CODIGO_OK
    /\ (banco.op = "ciclo" /\ banco.lat = LatColapso)
          => /\ banco.sal.plc_success
             /\ banco.sal.codigo_respuesta_plc \in {CODIGO_OK, CODIGO_FALLO_QC}
             /\ banco.sal.correccion_z_cmm = 0
             /\ banco.sal.log_z = "escala"
             /\ banco.envio[3].values = << VAL_EXITO >>

\* a cycle whose side frame has the edge and the mid marker at the same Y
\* and whose top frame carries a quality fault
C37_Testigo ==
    /\ banco.op = "ciclo"
    /\ banco.lat = LatColapso
    /\ banco.sal.log_z = "escala"
    /\ banco.sal.codigo_respuesta_plc = CODIGO_FALLO_QC
    /\ banco.sal.plc_success

====
